---------------------------- MODULE Spec2Model ----------------------------
(***************************************************************************)
(* Transfer registry and locking protocol of the e-transfer daemon         *)
(* (src/src/etdc_etdserver.cc).                                            *)
(*                                                                         *)
(* One thread drives each ETDServer instance (a Service, identified by its *)
(* UUID); one thread drives each ETDDataServer connection.  All of them    *)
(* share one etd_state: the mutex shared_state.lock (stateLock), and the   *)
(* map shared_state.transfers from UUID to transferprops_type, each with   *)
(* its own mutex (xferLock).                                               *)
(*                                                                         *)
(* Granularity: one action is one stretch of code between two points where *)
(* a thread can wait or performs I/O.  A thread that has to wait for       *)
(* shared_state.lock is a thread whose next action is disabled.            *)
(***************************************************************************)
EXTENDS Integers, Sequences, FiniteSets, TLC

(***************************************************************************)
(* Bounds of the model                                                     *)
(***************************************************************************)
\* number of ETDServer instances (= UUIDs) sharing one etd_state
NumSvc == 2
\* number of concurrent data connections (ETDDataServer threads)
NumData == 1
\* largest byte count asked of sendFile/getFile/data header
MaxTodo == 2
\* size of the copy buffer (bufSz, 10 MiB in the source), scaled down
BufSz == 1
\* number of data-channel addresses a caller can name
NumAddrs == 2
\* the largest file size, and the largest offset a reader says it already has
MaxSize == 1
MaxHave == 1

Services    == 1 .. NumSvc
DataThreads == (NumSvc + 1) .. (NumSvc + NumData)
Procs       == Services \cup DataThreads
\* a Service's UUID is its index; std::map iterates in this order
UUIDs       == Services

None  == 0
NoRec == [path |-> "", openMode |-> "none"]

\* openmode_type
OpenModes == {"Read", "New", "OverWrite", "Resume", "SkipExisting"}

\* data-channel addresses, and the dataaddrlist_type values given to
\* sendFile/getFile: no address, or all of them in either order; or just
\* the first address
Addrs == 1 .. NumAddrs

AddrLists == {<<>>, [i \in 1 .. NumAddrs |-> i],
                    [i \in 1 .. NumAddrs |-> NumAddrs + 1 - i]}

OneAddr == {<<1>>}

\* paths as given by the client, and what detail::normalize_path makes of them
RawPaths == {"/a/b", "/a/./b", "/c"}

normalize_path(p) == IF p = "/a/./b" THEN "/a/b" ELSE p

VARIABLES
    transfers,  \* shared_state.transfers: UUID -> transferprops_type (or NoRec)
    fdOpen,     \* fdOpen[u]: the file descriptor opened for u's request is open
    stateLock,  \* holder of shared_state.lock, or None
    xferLock,   \* xferLock[u]: holder of transfers[u]->lock, or None
    pc,         \* position of every thread
    arg,        \* arguments / locals of the operation a thread executes
    ret,        \* result of the operation a thread has completed
    proxy,      \* the ETDProxy of a client and the thread that calls it
    ctl,        \* the control connection between that ETDProxy and its peer
    dc          \* a data connection, byte by byte, and the bytes of the files

vars == <<transfers, fdOpen, stateLock, xferLock, pc, arg, ret, proxy, ctl, dc>>

\* the client side of the control protocol and the bytes of the data protocol
ctlvars == <<proxy, ctl, dc>>

\* have: the offset a reader already has; cnt: the count that requestFileWrite
\* or requestFileRead returns next to the UUID;
\* n: the byte count asked for; todo: what is left of it; on the data
\* connection conn: hdr header bytes written (0, or 1 for the whole header),
\* moved payload bytes copied, ack acknowledgement bytes read or written;
\* tried: the addresses that did not connect, as noted in the diagnostics;
\* eof: a read of the data connection has returned 0, the peer has closed it
NoArg == [op |-> "none", path |-> "", mode |-> "none", uuid |-> None,
          todo |-> 0, push |-> FALSE, n |-> 0, addrs |-> <<>>, tried |-> <<>>,
          conn |-> None, hdr |-> 0, moved |-> 0, ack |-> 0, have |-> 0, cnt |-> 0,
          eof |-> FALSE]

\* the ETDProxy between two calls. pc: where the calling thread is; op and
\* the arguments of the call; buf: the reply bytes in buffer[0 .. curPos);
\* finished, state (status_s), info, curUUID and filePos (remain) as in the
\* code, <<>> for a null pointer or an empty string; rv: the entries
\* collected; res: how the call ended, uuid and cnt the pair it returned
NoCall == [pc |-> "idle", op |-> "none", path |-> "", mode |-> "none", have |-> 0,
           uuid |-> None, buf |-> <<>>, finished |-> FALSE, state |-> "",
           info |-> <<>>, curUUID |-> <<>>, filePos |-> <<>>, rv |-> <<>>,
           res |-> "none", cnt |-> 0]

\* the control connection. cmd: the command line the client wrote, until the
\* ControlWrapper has replied to it; lines: the command lines that came in
\* with it in the same read and wait behind it; log: the command lines a
\* client that writes them itself has written, read by read; down: reply bytes written and not yet
\* read by the client; sent: how many bytes a peer that writes whatever it
\* likes has written; closed: the far end has closed the connection; served:
\* what the operation that the last command started has returned (its
\* result and its count), noted when the ETDServerWrapper writes the reply;
\* all: everything a client that writes pieces has written; up: what of it no
\* read has returned yet; wbuf: buffer[0 .. curPos) of the ETDServerWrapper;
\* got: the lines its for loop has been given
NoCtl == [cmd |-> <<>>, lines |-> <<>>, log |-> <<>>,
          down |-> <<>>, sent |-> 0, closed |-> FALSE,
          served |-> [ret |-> "none", cnt |-> 0],
          up |-> <<>>, wbuf |-> <<>>, got |-> <<>>, all |-> <<>>]

\* the data connection and the files. cli: the thread that has connected,
\* or None; up: the bytes written by cli and not yet read by the
\* ETDDataServer, dn: the bytes written by the ETDDataServer and not yet read
\* by cli; cliClosed, srvClosed: that end of the connection is closed; buf:
\* buffer[0 .. curPos) of ETDDataServer::handle; rd[u]: how many bytes have
\* been read through the fd of record u, the k-th of them is byte k;
\* wr[u]: the bytes written through the fd of record u, in order; src and
\* base: rd of the sender's record when it connected and the length of wr of
\* the record a header names when the header was read; n: the sz of that
\* header; srv: the thread of the data server that serves the connection;
\* sent: the payload bytes that a client that writes them itself has
\* written; push: the header that cli wrote has push:1
NoData == [cli |-> None, up |-> <<>>, dn |-> <<>>,
           cliClosed |-> FALSE, srvClosed |-> FALSE, buf |-> <<>>,
           rd |-> [u \in UUIDs |-> 0], wr |-> [u \in UUIDs |-> <<>>],
           src |-> 0, base |-> 0, n |-> 0, srv |-> None, sent |-> 0,
           push |-> FALSE]

Init ==
    /\ transfers = [u \in UUIDs |-> NoRec]
    /\ fdOpen    = [u \in UUIDs |-> FALSE]
    /\ stateLock = None
    /\ xferLock  = [u \in UUIDs |-> None]
    /\ pc        = [p \in Procs |-> "idle"]
    /\ arg       = [p \in Procs |-> NoArg]
    /\ ret       = [p \in Procs |-> "none"]
    /\ proxy     = NoCall
    /\ ctl       = NoCtl
    /\ dc        = NoData

(***************************************************************************)
(* Helpers on the map                                                      *)
(***************************************************************************)
\* transfers.find(u) != transfers.end()
Found(u) == transfers[u] # NoRec

\* std::find_if over the map in key order: the first UUID whose record has
\* this path, or None
FindPath(nPath) ==
    LET hits == {u \in UUIDs : Found(u) /\ transfers[u].path = nPath}
    IN  IF hits = {} THEN None
        ELSE CHOOSE u \in hits : \A v \in hits : u <= v

\* a finished operation: result in ret; of the locals the name of the
\* operation and its path are kept for the caller, and what was written to
\* the data connection stays written; the connection is closed
Finish(p, result) ==
    /\ pc'  = [pc  EXCEPT ![p] = "done"]
    /\ ret' = [ret EXCEPT ![p] = result]
    /\ arg' = [arg EXCEPT ![p] = [NoArg EXCEPT !.op = arg[p].op, !.path = arg[p].path,
                                              !.hdr = arg[p].hdr, !.moved = arg[p].moved]]

\* the caller picks up the result; the thread is ready for the next call
Return(p) ==
    /\ pc[p] = "done"
    /\ UNCHANGED ctlvars
    /\ pc'  = [pc  EXCEPT ![p] = "idle"]
    /\ ret' = [ret EXCEPT ![p] = "none"]
    /\ arg' = [arg EXCEPT ![p] = NoArg]
    /\ UNCHANGED <<transfers, fdOpen, stateLock, xferLock>>

(***************************************************************************)
(* ETDServer::requestFileWrite                                             *)
(***************************************************************************)
\* allowedModes of requestFileWrite
allowedModes == {"New", "OverWrite", "Resume", "SkipExisting"}

\* faulty variant: the busy check is left out
BusyNever(s) == FALSE

\* transfers.find(__m_uuid) != transfers.end(): this server is already busy
Busy(s) == Found(s)

\* faulty variant: a path that is only open for reading does not count as present
PathPresentForWrite(nPath) ==
    \E u \in UUIDs : Found(u) /\ transfers[u].path = nPath
                                /\ transfers[u].openMode # "Read"

\* pathPresent: some record, in whatever mode, has this normalized path
PathPresent(nPath) == \E u \in UUIDs : Found(u) /\ transfers[u].path = nPath

\* faulty variant: the lock is dropped after the checks, before the open and insert
GuardDropped(s) == None

\* the lock_guard on shared_state.lock lives until the function returns:
\* holder of stateLock between the checks and the open and insert
GuardHolder(s) == s

\* faulty variant: stateLock stays locked when the function is left
GuardKept(s) == stateLock

\* the lock_guard goes out of scope, by return or by exception: holder of
\* stateLock behind the function
GuardRelease(s) == IF stateLock = s THEN None ELSE stateLock

\* transfers.emplace(uuid, transferprops_type(fd, nPath, mode)): a key that
\* is in the map already is left as it is (and .second is false)
Emplace(u, nPath, mode) ==
    IF Found(u) THEN transfers
    ELSE [transfers EXCEPT ![u] = [path |-> nPath, openMode |-> mode]]

\* lock, the three assertions, up to the point where the file is opened
RequestFileWrite(s, path, mode) ==
    /\ pc[s] = "idle"
    /\ UNCHANGED ctlvars
    /\ stateLock = None
    /\ UNCHANGED <<transfers, fdOpen, xferLock>>
    /\ LET nPath == normalize_path(path)
           call  == [NoArg EXCEPT !.op = "rfw", !.path = nPath, !.mode = mode]
           fail(e) == /\ pc'  = [pc  EXCEPT ![s] = "done"]
                      /\ ret' = [ret EXCEPT ![s] = e]
                      /\ arg' = [arg EXCEPT ![s] =
                                   IF e = "ErrMode" THEN call
                                   ELSE [call EXCEPT !.mode = "none"]]
                      /\ UNCHANGED stateLock
       IN  IF Busy(s) THEN fail("ErrBusy")
           ELSE IF mode \notin allowedModes THEN fail("ErrMode")
           ELSE IF PathPresent(nPath) THEN fail("ErrPathInUse")
           ELSE /\ stateLock' = GuardHolder(s)
                /\ pc'  = [pc  EXCEPT ![s] = "rfw_open"]
                /\ arg' = [arg EXCEPT ![s] = call]
                /\ UNCHANGED ret

\* return result_type(__m_uuid, count): the UUID is the thread's own
Result(s, count) ==
    /\ pc'  = [pc  EXCEPT ![s] = "done"]
    /\ ret' = [ret EXCEPT ![s] = "ok"]
    /\ arg' = [arg EXCEPT ![s] = [NoArg EXCEPT !.op = arg[s].op, !.path = arg[s].path,
                                              !.cnt = count]]

\* new etdc_file(nPath, omode, 0644) throws, or the record is inserted and
\* the size of the file is returned; the lock_guard releases stateLock on
\* either way out
RfwOpen(s) ==
    /\ pc[s] = "rfw_open"
    /\ UNCHANGED ctlvars
    /\ stateLock' = GuardRelease(s)
    /\ UNCHANGED xferLock
    /\ \/ /\ transfers' = Emplace(s, arg[s].path, arg[s].mode)
          /\ IF Found(s)
             THEN UNCHANGED fdOpen /\ Finish(s, "ErrInsert")
             ELSE /\ fdOpen' = [fdOpen EXCEPT ![s] = TRUE]
                  /\ \E fsize \in 0 .. MaxSize : Result(s, fsize)
       \/ /\ UNCHANGED <<transfers, fdOpen>>
          /\ Finish(s, "ErrOpen")

(***************************************************************************)
(* ETDServer::requestFileRead                                              *)
(***************************************************************************)
\* faulty variant: the open mode of the record found is not looked at
ReadPathOkAnyMode(nPath) == TRUE

\* faulty variant: a path that has a record is refused, readers included
ReadPathOkAbsent(nPath) == FindPath(nPath) = None

\* pathPtr == end || pathPtr->second->openMode == Read
ReadPathOk(nPath) ==
    LET u == FindPath(nPath)
    IN  u = None \/ transfers[u].openMode = "Read"

RequestFileRead(s, path, alreadyhave) ==
    /\ pc[s] = "idle"
    /\ UNCHANGED ctlvars
    /\ stateLock = None
    /\ UNCHANGED <<transfers, fdOpen, xferLock>>
    /\ LET nPath == normalize_path(path)
           call  == [NoArg EXCEPT !.op = "rfr", !.path = nPath, !.have = alreadyhave]
           fail(e) == /\ pc'  = [pc  EXCEPT ![s] = "done"]
                      /\ ret' = [ret EXCEPT ![s] = e]
                      /\ arg' = [arg EXCEPT ![s] = [call EXCEPT !.have = 0]]
                      /\ UNCHANGED stateLock
       IN  IF Busy(s) THEN fail("ErrBusy")
           ELSE IF ~ReadPathOk(nPath) THEN fail("ErrPathInUse")
           ELSE /\ stateLock' = GuardHolder(s)
                /\ pc'  = [pc  EXCEPT ![s] = "rfr_open"]
                /\ arg' = [arg EXCEPT ![s] = call]
                /\ UNCHANGED ret

\* new etdc_file(nPath, omode) throws, the seek to alreadyhave fails, or the
\* record is inserted and what remains of the file is returned
RfrOpen(s) ==
    /\ pc[s] = "rfr_open"
    /\ UNCHANGED ctlvars
    /\ stateLock' = GuardRelease(s)
    /\ UNCHANGED xferLock
    /\ \/ /\ transfers' = Emplace(s, arg[s].path, "Read")
          /\ IF Found(s)
             THEN UNCHANGED fdOpen /\ Finish(s, "ErrInsert")
             ELSE /\ fdOpen' = [fdOpen EXCEPT ![s] = TRUE]
                  /\ \E sz \in 0 .. MaxSize : Result(s, sz - arg[s].have)
       \/ /\ UNCHANGED <<transfers, fdOpen>>
          /\ \E e \in {"ErrOpen", "ErrSeek"} : Finish(s, e)

(***************************************************************************)
(* The two-level locking protocol                                          *)
(***************************************************************************)
\* faulty variant: the record's lock is taken whoever holds it
TryLockAlways(u) == TRUE

\* std::unique_lock sh(record.lock, std::try_to_lock); sh.owns_lock().
\* (try_lock may also fail on a free mutex: the round then leaves the state
\* as it is, a stuttering step.)
TryLock(u) == xferLock[u] = None

\* faulty variant: the thread sleeps and retries with stateLock still held
BackOffHolding(p) == p

\* lk.unlock() after a failed try_lock: holder of stateLock while p sleeps
BackOff(p) == None

\* release of the record's lock when the unique_lock goes out of scope
Unlock(u) == [xferLock EXCEPT ![u] = None]

(***************************************************************************)
(* ETDServer::removeUUID                                                   *)
(***************************************************************************)
\* faulty variant: the uuid given is not compared with the server's own
IsOwnUUIDAny(s, uuid) == TRUE

\* ETDCASSERT(uuid == __m_uuid)
IsOwnUUID(s, uuid) == uuid = s

\* faulty variant: the entry is not erased
EraseNothing(u) == transfers

\* faulty variant: the map is cleared
EraseAll(u) == [v \in UUIDs |-> NoRec]

\* removed.swap(ptr->second); transfers.erase(ptr)
Erase(u) == [transfers EXCEPT ![u] = NoRec]

RemoveUUID(s, uuid) ==
    /\ pc[s] = "idle"
    /\ UNCHANGED ctlvars
    /\ UNCHANGED <<transfers, fdOpen, stateLock, xferLock>>
    /\ IF IsOwnUUID(s, uuid)
       THEN /\ pc'  = [pc  EXCEPT ![s] = "rm_lock"]
            /\ arg' = [arg EXCEPT ![s] = [NoArg EXCEPT !.op = "rm", !.uuid = uuid]]
            /\ UNCHANGED ret
       ELSE /\ pc'  = [pc  EXCEPT ![s] = "done"]
            /\ ret' = [ret EXCEPT ![s] = "ErrUuid"]
            /\ arg' = [arg EXCEPT ![s] = [NoArg EXCEPT !.op = "rm", !.uuid = uuid]]

\* one round of the while(true) loop up to "we now hold both locks"
RmTry(s) ==
    /\ pc[s] = "rm_lock"
    /\ UNCHANGED ctlvars
    /\ stateLock = None
    /\ UNCHANGED <<transfers, fdOpen>>
    /\ IF ~Found(s)
       THEN /\ Finish(s, "false")
            /\ UNCHANGED <<stateLock, xferLock>>
       ELSE \/ /\ TryLock(s)
               /\ stateLock' = s
               /\ xferLock'  = [xferLock EXCEPT ![s] = s]
               /\ pc' = [pc EXCEPT ![s] = "rm_both"]
               /\ UNCHANGED <<arg, ret>>
            \/ /\ ~TryLock(s)
               /\ stateLock' = BackOff(s)
               /\ UNCHANGED <<xferLock, pc, arg, ret>>

\* close the file, take the record out of the map, drop both locks
RmErase(s) ==
    /\ pc[s] = "rm_both"
    /\ UNCHANGED ctlvars
    /\ fdOpen'    = [fdOpen EXCEPT ![s] = FALSE]
    /\ transfers' = Erase(s)
    /\ xferLock'  = Unlock(s)
    /\ stateLock' = None
    /\ Finish(s, "true")

(***************************************************************************)
(* Locking a transfer for the copy loops: sendFile, getFile and            *)
(* ETDDataServer::handle run the same rounds                               *)
(***************************************************************************)
\* one round for thread p on record u: not found, try_lock failed (back
\* off), open mode not compatible, or the record's lock is held and
\* stateLock released
LockTransfer(p, u, okModes, errNoRec, errMode, next) ==
    /\ stateLock = None
    /\ UNCHANGED <<transfers, fdOpen>>
    /\ IF ~Found(u)
       THEN /\ Finish(p, errNoRec)
            /\ UNCHANGED <<stateLock, xferLock>>
       ELSE \/ /\ TryLock(u)
               /\ UNCHANGED stateLock
               /\ IF transfers[u].openMode \in okModes
                  THEN /\ xferLock' = [xferLock EXCEPT ![u] = p]
                       /\ pc' = [pc EXCEPT ![p] = next]
                       /\ UNCHANGED <<arg, ret>>
                  ELSE /\ Finish(p, errMode)
                       /\ UNCHANGED xferLock
            \/ /\ ~TryLock(u)
               /\ stateLock' = BackOff(p)
               /\ UNCHANGED <<xferLock, pc, arg, ret>>

\* faulty variant: the record's lock stays locked when an exception leaves
UnwindKeepsLock(u) == xferLock

\* stack unwinding destroys the unique_lock on the record's lock
Unwind(u) == Unlock(u)

\* an exception leaves the copy: the record's lock is released and the data
\* connection, if there is one, is closed
Abort(p, u, e) ==
    /\ xferLock' = Unwind(u)
    /\ Finish(p, e)
    /\ UNCHANGED <<transfers, fdOpen, stateLock>>

\* a step of the copy that keeps the record's lock; a: the thread's locals
\* after the step
Copy(p, next, a) ==
    /\ pc'  = [pc  EXCEPT ![p] = next]
    /\ arg' = [arg EXCEPT ![p] = a]
    /\ UNCHANGED <<transfers, fdOpen, stateLock, xferLock, ret>>

Min(a, b) == IF a < b THEN a ELSE b

\* faulty variant: the loop ends at the first address that does not connect
TryAddrsOnce(addrs, up, tried) ==
    IF addrs = <<>> THEN [conn |-> None, tried |-> tried]
    ELSE IF Head(addrs) \in up THEN [conn |-> Head(addrs), tried |-> tried]
    ELSE [conn |-> None, tried |-> Append(tried, Head(addrs))]

\* for(auto addr: dataAddrs) { try { dstFD = mk_client(addr); break; }
\* catch(...) { tried << addr; } }  with up the addresses that accept
RECURSIVE TryAddrs(_, _, _)
TryAddrs(addrs, up, tried) ==
    IF addrs = <<>> THEN [conn |-> None, tried |-> tried]
    ELSE IF Head(addrs) \in up THEN [conn |-> Head(addrs), tried |-> tried]
    ELSE TryAddrs(Tail(addrs), up, Append(tried, Head(addrs)))

\* the connect loop, ETDCASSERT(dstFD, ... << tried.str()), and the write of
\* the header, whose result is not looked at
Connect(p, next) ==
    \E up \in SUBSET Addrs :
        LET r == TryAddrs(arg[p].addrs, up, <<>>)
        IN  IF r.conn = None
            THEN /\ xferLock' = Unwind(p)
                 /\ pc'  = [pc  EXCEPT ![p] = "done"]
                 /\ ret' = [ret EXCEPT ![p] = "ErrConnect"]
                 /\ arg' = [arg EXCEPT ![p] = [NoArg EXCEPT !.op = arg[p].op,
                                                            !.tried = r.tried]]
                 /\ UNCHANGED <<transfers, fdOpen, stateLock>>
            ELSE Copy(p, next, [arg[p] EXCEPT !.addrs = <<>>, !.conn = r.conn,
                                              !.tried = r.tried, !.hdr = 1])

(***************************************************************************)
(* ETDServer::sendFile                                                     *)
(***************************************************************************)
SendFile(s, srcUUID, todo, dataAddrs) ==
    /\ pc[s] = "idle"
    /\ UNCHANGED ctlvars
    /\ UNCHANGED <<transfers, fdOpen, stateLock, xferLock>>
    /\ IF srcUUID # s
       THEN /\ pc'  = [pc  EXCEPT ![s] = "done"]
            /\ ret' = [ret EXCEPT ![s] = "ErrUuid"]
            /\ arg' = [arg EXCEPT ![s] = [NoArg EXCEPT !.op = "sf", !.uuid = srcUUID]]
       ELSE IF todo > 0
       THEN /\ pc'  = [pc  EXCEPT ![s] = "sf_lock"]
            /\ arg' = [arg EXCEPT ![s] = [NoArg EXCEPT !.op = "sf", !.uuid = srcUUID,
                                            !.n = todo, !.todo = todo,
                                            !.addrs = dataAddrs]]
            /\ UNCHANGED ret
       ELSE /\ pc'  = [pc  EXCEPT ![s] = "done"]
            /\ ret' = [ret EXCEPT ![s] = "true"]
            /\ arg' = [arg EXCEPT ![s] = [NoArg EXCEPT !.op = "sf", !.uuid = srcUUID,
                                            !.n = todo]]

SfTry(s) ==
    /\ pc[s] = "sf_lock"
    /\ UNCHANGED ctlvars
    /\ LockTransfer(s, s, {"Read"}, "ErrNotInit", "ErrNotRead", "sf_conn")

\* mk_client over dataAddrs in turn, then the header is written
SfConnect(s) ==
    /\ pc[s] = "sf_conn"
    /\ UNCHANGED ctlvars
    /\ Connect(s, "sf_copy")

\* inner while(todo > 0): read a chunk of the file, write it to the peer
SfCopy(s) ==
    /\ pc[s] = "sf_copy"
    /\ UNCHANGED ctlvars
    /\ IF arg[s].todo > 0
       THEN LET k == Min(arg[s].todo, BufSz)
            IN  \/ Copy(s, "sf_copy", [arg[s] EXCEPT !.todo = @ - k, !.moved = @ + k])
                \/ Abort(s, s, "ErrIO")
       ELSE Copy(s, "sf_ack", arg[s])

\* dstFD->read(&ack, 1): the peer's byte arrives, or the read ends without
\* one; its result is not looked at.  End of the round, todo <= 0 ends the
\* loop
SfAck(s) ==
    /\ pc[s] = "sf_ack"
    /\ UNCHANGED ctlvars
    /\ xferLock' = Unlock(s)
    /\ \E got \in {0, 1} :
          /\ pc'  = [pc  EXCEPT ![s] = "done"]
          /\ ret' = [ret EXCEPT ![s] = "true"]
          /\ arg' = [arg EXCEPT ![s] = [NoArg EXCEPT !.op = "sf", !.n = arg[s].n,
                                          !.hdr = arg[s].hdr, !.moved = arg[s].moved,
                                          !.ack = got]]
    /\ UNCHANGED <<transfers, fdOpen, stateLock>>

(***************************************************************************)
(* ETDServer::getFile                                                      *)
(***************************************************************************)
\* faulty variant: SkipExisting counts as a mode to write in
allowedWriteModesSkip == {"OverWrite", "New", "Resume", "SkipExisting"}

\* allowedWriteModes of getFile and of ETDDataServer::handle
allowedWriteModes == {"OverWrite", "New", "Resume"}

GetFile(s, dstUUID, todo, dataAddrs) ==
    /\ pc[s] = "idle"
    /\ UNCHANGED ctlvars
    /\ UNCHANGED <<transfers, fdOpen, stateLock, xferLock>>
    /\ IF dstUUID # s
       THEN /\ pc'  = [pc  EXCEPT ![s] = "done"]
            /\ ret' = [ret EXCEPT ![s] = "ErrUuid"]
            /\ arg' = [arg EXCEPT ![s] = [NoArg EXCEPT !.op = "gf", !.uuid = dstUUID]]
       ELSE IF todo > 0
       THEN /\ pc'  = [pc  EXCEPT ![s] = "gf_lock"]
            /\ arg' = [arg EXCEPT ![s] = [NoArg EXCEPT !.op = "gf", !.uuid = dstUUID,
                                            !.n = todo, !.todo = todo,
                                            !.addrs = dataAddrs]]
            /\ UNCHANGED ret
       ELSE /\ pc'  = [pc  EXCEPT ![s] = "done"]
            /\ ret' = [ret EXCEPT ![s] = "true"]
            /\ arg' = [arg EXCEPT ![s] = [NoArg EXCEPT !.op = "gf", !.uuid = dstUUID,
                                            !.n = todo]]

GfTry(s) ==
    /\ pc[s] = "gf_lock"
    /\ UNCHANGED ctlvars
    /\ LockTransfer(s, s, allowedWriteModes, "ErrNotInit", "ErrNotWrite", "gf_conn")

GfConnect(s) ==
    /\ pc[s] = "gf_conn"
    /\ UNCHANGED ctlvars
    /\ Connect(s, "gf_copy")

\* what a read of up to bufSz bytes of the data connection can return: 0
\* once the peer has closed it, and 0 (the peer closes now) or a chunk before
ReadSizes(eof) == IF eof THEN {0} ELSE 0 .. BufSz

\* inner while(todo > 0): k = read(peer, bufSz); if( k > 0 ) write k bytes
\* to the file and todo -= k; a read that returns 0 changes nothing and the
\* loop reads again
GfCopy(s) ==
    /\ pc[s] = "gf_copy"
    /\ UNCHANGED ctlvars
    /\ IF arg[s].todo > 0
       THEN \E k \in ReadSizes(arg[s].eof) :
               IF k > 0
               THEN \/ Copy(s, "gf_copy", [arg[s] EXCEPT !.todo = @ - k, !.moved = @ + k])
                    \/ Abort(s, s, "ErrIO")
               ELSE Copy(s, "gf_copy", [arg[s] EXCEPT !.eof = TRUE])
       ELSE Copy(s, "gf_ack", arg[s])

\* write of the acknowledgement 'y'
GfAck(s) ==
    /\ pc[s] = "gf_ack"
    /\ UNCHANGED ctlvars
    /\ xferLock' = Unlock(s)
    /\ pc'  = [pc  EXCEPT ![s] = "done"]
    /\ ret' = [ret EXCEPT ![s] = "true"]
    /\ arg' = [arg EXCEPT ![s] = [NoArg EXCEPT !.op = "gf", !.n = arg[s].n,
                                    !.hdr = arg[s].hdr, !.moved = arg[s].moved,
                                    !.ack = 1]]
    /\ UNCHANGED <<transfers, fdOpen, stateLock>>

(***************************************************************************)
(* ETDDataServer::handle, push_n, pull_n                                   *)
(***************************************************************************)
allowedReadModes == {"Read"}

\* a header { uuid:u, sz:n [, push:1] } was read and passed the checks
DsHeader(d, u, push, sz) ==
    /\ pc[d] = "idle"
    /\ UNCHANGED ctlvars
    /\ pc'  = [pc  EXCEPT ![d] = "ds_lock"]
    /\ arg' = [arg EXCEPT ![d] = [NoArg EXCEPT !.op = "ds", !.uuid = u,
                                              !.push = push, !.todo = sz]]
    /\ UNCHANGED <<transfers, fdOpen, stateLock, xferLock, ret>>

\* the read fails or the header is not accepted: handle() ends
DsReject(d) ==
    /\ pc[d] = "idle"
    /\ UNCHANGED ctlvars
    /\ pc'  = [pc  EXCEPT ![d] = "done"]
    /\ ret' = [ret EXCEPT ![d] = "ErrHeader"]
    /\ arg' = [arg EXCEPT ![d] = [NoArg EXCEPT !.op = "ds"]]
    /\ UNCHANGED <<transfers, fdOpen, stateLock, xferLock>>

DsTry(d) ==
    /\ pc[d] = "ds_lock"
    /\ UNCHANGED ctlvars
    /\ LockTransfer(d, arg[d].uuid,
                    IF arg[d].push THEN allowedReadModes ELSE allowedWriteModes,
                    "ErrNoTransfer", "ErrModeMismatch", "ds_copy")

\* push_n / pull_n: one round of the copy loop, or on to the acknowledgement
DsCopy(d) ==
    /\ pc[d] = "ds_copy"
    /\ UNCHANGED ctlvars
    /\ IF arg[d].todo > 0
       THEN LET k == Min(arg[d].todo, BufSz)
            IN  \/ Copy(d, "ds_copy", [arg[d] EXCEPT !.todo = @ - k])
                \/ Abort(d, arg[d].uuid, IF arg[d].push THEN "ErrIO" ELSE "ErrShortRead")
       ELSE Copy(d, "ds_ack", arg[d])

\* the acknowledgement is read (push) or written (pull); the record's lock
\* goes out of scope, curPos = 0 and the loop waits for the next header
DsAck(d) ==
    /\ pc[d] = "ds_ack"
    /\ UNCHANGED ctlvars
    /\ xferLock' = Unlock(arg[d].uuid)
    /\ pc'  = [pc  EXCEPT ![d] = "idle"]
    /\ arg' = [arg EXCEPT ![d] = NoArg]
    /\ UNCHANGED <<transfers, fdOpen, stateLock, ret>>

(***************************************************************************)
(* The control protocol: text on the wire                                  *)
(***************************************************************************)
\* Text is a sequence of pieces: a keyword, a blank, a newline, or a run of
\* other characters that holds no blank and no newline. Pieces that follow
\* one another read as one text.
NL == "\n"
CR == "\r"
Blank == " "

\* operator<< on an off_t or on a UUID of the model
FmtInt(n) == ToString(n)

\* the numbers that are written with one piece
Small == -9 .. 9

\* [0-9]+ on a piece
IsDigit(t) == \E n \in 0 .. 9 : t = FmtInt(n)

\* [0-9]+ on a text
IsDigits(txt) == txt # <<>> /\ \A i \in 1 .. Len(txt) : IsDigit(txt[i])

\* -?[0-9]+ on a text
IsInt(txt) ==
    /\ txt # <<>>
    /\ \E n \in Small : txt[1] = FmtInt(n)
    /\ \A i \in 2 .. Len(txt) : IsDigit(txt[i])

\* \S+ on a text
IsToken(txt) == txt # <<>> /\ \A i \in 1 .. Len(txt) : txt[i] \notin {Blank, NL}

Num(t) == CHOOSE n \in Small : t = FmtInt(n)

RECURSIVE DigitsVal(_)
DigitsVal(txt) ==
    IF Len(txt) = 1 THEN Num(txt[1])
    ELSE 10 * DigitsVal(SubSeq(txt, 1, Len(txt) - 1)) + Num(txt[Len(txt)])

\* string2off_t on a text that matched -?[0-9]+
string2off_t(txt) ==
    IF Num(txt[1]) < 0
    THEN 0 - DigitsVal(<<FmtInt(0 - Num(txt[1]))>> \o Tail(txt))
    ELSE DigitsVal(txt)

\* rxLine over buffer[0 .. curPos): the runs of non-newline pieces that are
\* followed by a newline, and the position behind the newlines of the last
\* of them; newlines in front of the first run are skipped, a run without a
\* newline behind it is no line
RECURSIVE Scan(_, _, _, _, _)
Scan(buf, i, cur, lines, endpos) ==
    IF i > Len(buf) THEN [lines |-> lines, endpos |-> endpos]
    ELSE IF buf[i] \notin {CR, NL}
    THEN Scan(buf, i + 1, Append(cur, buf[i]), lines, endpos)
    ELSE IF cur # <<>> THEN Scan(buf, i + 1, <<>>, Append(lines, cur), i)
    ELSE IF lines # <<>> THEN Scan(buf, i + 1, <<>>, lines, i)
    ELSE Scan(buf, i + 1, <<>>, lines, endpos)

getReplies(buf) == Scan(buf, 1, <<>>, <<>>, 0)

\* what is left of a text behind its leading blanks
RECURSIVE SkipBlanks(_)
SkipBlanks(txt) ==
    IF txt # <<>> /\ Head(txt) = Blank THEN SkipBlanks(Tail(txt)) ELSE txt

\* rxReply: ^(OK|ERR)(\s+(\S.*)?)?$ with std::regex::icase: the word may
\* be in lower case
IsReply(line) ==
    /\ line # <<>>
    /\ line[1] \in {"OK", "ERR", "ok", "err"}
    /\ Len(line) > 1 => line[2] = Blank

\* submatch 1, as it was written, and submatch 3 of rxReply
ReplyStatus(line) == line[1]
ReplyInfo(line) == SkipBlanks(Tail(line))

\* rxUUID: ^UUID:(\S+)$
IsUUIDLine(line) == line # <<>> /\ line[1] = "UUID:" /\ IsToken(Tail(line))

\* rxAlreadyHave: ^AlreadyHave:([0-9]+)$
IsAlreadyHave(line) == line # <<>> /\ line[1] = "AlreadyHave:" /\ IsDigits(Tail(line))

\* rxRemain: ^Remain:(-?[0-9]+)$
IsRemain(line) == line # <<>> /\ line[1] = "Remain:" /\ IsInt(Tail(line))

(***************************************************************************)
(* ETDProxy                                                                *)
(***************************************************************************)
\* operator<< and operator>> on an openmode_type: a mode goes over the wire
\* as the number that stands for it
ModeCodes == <<"New", "OverWrite", "Read", "Resume", "SkipExisting">>

FmtMode(om) == FmtInt(CHOOSE i \in 1 .. Len(ModeCodes) : ModeCodes[i] = om)

ParseMode(t) ==
    IF \E i \in 1 .. Len(ModeCodes) : t = FmtInt(i) THEN ModeCodes[Num(t)] ELSE "none"

\* the data addresses of send-file, separated by commas
RECURSIVE FmtAddrs(_)
FmtAddrs(addrs) ==
    IF addrs = <<>> THEN <<>>
    ELSE IF Len(addrs) = 1 THEN <<FmtInt(addrs[1])>>
    ELSE <<FmtInt(addrs[1]), ",">> \o FmtAddrs(Tail(addrs))

\* msgBuf of the six operations, without the newline that ends it
Command(c) ==
    CASE c.op = "list" -> <<"list", Blank, c.path>>
      [] c.op = "rfw"  -> <<"write-file-", FmtMode(c.mode), Blank, c.path>>
      [] c.op = "rfr"  -> <<"read-file", Blank, FmtInt(c.have), Blank, c.path>>
      [] c.op = "dca"  -> <<"data-channel-addr">>
      [] c.op = "rm"   -> <<"remove-uuid", Blank, FmtInt(c.uuid)>>
      [] c.op = "sf"   -> <<"send-file", Blank, FmtInt(c.uuid), Blank, FmtInt(c.dst),
                            Blank, FmtInt(c.todo), Blank>> \o FmtAddrs(c.addrs)

\* a call of the client: its operation and arguments
NoParams == [op |-> "none", path |-> "", mode |-> "none", have |-> 0, uuid |-> None,
             dst |-> None, todo |-> 0, addrs |-> <<>>]

\* the size of the reply buffer, bufSz
PxBufSz == 4

\* the call ends: an exception of kind res leaves the function, or it returns
PxDone(q, buf, res) == [q EXCEPT !.pc = "done", !.buf = buf, !.res = res]

\* the command is written to the connection; a write to a connection that
\* the far end has closed fails
PxCall(c) ==
    /\ proxy.pc = "idle"
    /\ UNCHANGED <<transfers, fdOpen, stateLock, xferLock, pc, arg, ret, dc>>
    /\ LET q == [NoCall EXCEPT !.op = c.op, !.path = c.path, !.mode = c.mode,
                               !.have = c.have, !.uuid = c.uuid]
       IN  IF ctl.closed
           THEN /\ proxy' = PxDone(q, <<>>, "ErrWrite")
                /\ ctl' = [ctl EXCEPT !.served = NoCtl.served]
           ELSE /\ proxy' = [q EXCEPT !.pc = "read"]
                /\ ctl' = [ctl EXCEPT !.cmd = Command(c), !.served = NoCtl.served]

\* the body of the for loop of requestFileWrite and requestFileRead on one
\* line: a UUID, a count, or the OK or ERR that ends the reply
Field(op, q, line) ==
    IF IsUUIDLine(line)
    THEN IF q.curUUID # <<>> THEN [q EXCEPT !.res = "ErrProtocol"]
         ELSE [q EXCEPT !.curUUID = Tail(line)]
    ELSE IF (op = "rfw" /\ IsAlreadyHave(line)) \/ (op = "rfr" /\ IsRemain(line))
    THEN IF q.filePos # <<>> THEN [q EXCEPT !.res = "ErrProtocol"]
         ELSE [q EXCEPT !.filePos = <<string2off_t(Tail(line))>>]
    ELSE IF IsReply(line)
    THEN [q EXCEPT !.state = ReplyStatus(line), !.info = ReplyInfo(line),
                   !.finished = TRUE]
    ELSE [q EXCEPT !.res = "ErrProtocol"]

\* faulty variant: the status of a line is not compared with the state
EntryAnyState(q, line) ==
    LET st == ReplyStatus(line)
    IN  IF ~IsReply(line) THEN [q EXCEPT !.res = "ErrProtocol"]
        ELSE IF st = "ERR"
        THEN [q EXCEPT !.state = st, !.info = ReplyInfo(line), !.res = "ErrRemote"]
        ELSE IF st = "OK" /\ ReplyInfo(line) = <<>>
        THEN [q EXCEPT !.state = st, !.finished = TRUE]
        ELSE [q EXCEPT !.state = st, !.rv = Append(@, ReplyInfo(line))]

\* the body of the for loop of listPath and dataChannelAddr on one line:
\* state is submatch 1 as written and is compared with "OK" and "ERR" as
\* they stand
Entry(q, line) ==
    LET st == ReplyStatus(line)
    IN  IF ~IsReply(line) THEN [q EXCEPT !.res = "ErrProtocol"]
        ELSE IF ~(q.state = "" \/ (q.state = "OK" /\ st = q.state))
        THEN [q EXCEPT !.res = "ErrProtocol"]
        ELSE IF st = "ERR"
        THEN [q EXCEPT !.state = st, !.info = ReplyInfo(line), !.res = "ErrRemote"]
        ELSE IF st = "OK" /\ ReplyInfo(line) = <<>>
        THEN [q EXCEPT !.state = st, !.finished = TRUE]
        ELSE [q EXCEPT !.state = st, !.rv = Append(@, ReplyInfo(line))]

OneLine(op, q, line) == IF op \in {"rfw", "rfr"} THEN Field(op, q, line) ELSE Entry(q, line)

\* for(; !finished && line!=lines.end(); line++): res is set when an
\* assertion fails or an exception is thrown in the body; a line that is
\* left over when the loop ends fails the assertion behind the loop
RECURSIVE ForLines(_, _, _)
ForLines(op, q, lines) ==
    IF q.res # "none" THEN q
    ELSE IF lines = <<>> THEN q
    ELSE IF q.finished THEN [q EXCEPT !.res = "ErrProtocol"]
    ELSE ForLines(op, OneLine(op, q, Head(lines)), Tail(lines))

\* the assertions behind the while loop, and the value returned
PxResult(q, buf) ==
    IF buf # <<>> THEN PxDone(q, buf, "ErrProtocol")
    ELSE IF q.op \in {"list", "dca"} THEN PxDone(q, buf, "ok")
    ELSE IF q.state # "OK" THEN PxDone(q, buf, "ErrRemote")
    ELSE IF q.filePos = <<>> \/ q.curUUID = <<>> THEN PxDone(q, buf, "ErrProtocol")
    ELSE PxDone([q EXCEPT !.cnt = q.filePos[1]], buf, "ok")

\* one turn of the while loop of listPath, requestFileWrite, requestFileRead
\* and dataChannelAddr once n bytes were read: the lines are handled, the
\* bytes behind them are moved to the front of the buffer; the loop goes on
\* while the reply is not finished and the buffer is not full
PxLoop(q0, buf) ==
    LET r    == getReplies(buf)
        q    == ForLines(q0.op, q0, r.lines)
        rest == SubSeq(buf, r.endpos + 1, Len(buf))
    IN  IF q.res # "none" THEN PxDone(q, rest, q.res)
        ELSE IF ~q.finished /\ Len(rest) < PxBufSz THEN [q EXCEPT !.buf = rest]
        ELSE PxResult(q, rest)

\* one turn of the while loop of removeUUID and sendFile once n bytes were
\* read: no line yet and room in the buffer, read on; one line, OK or ERR;
\* return true stands behind the loop
PxLoopOne(q, buf) ==
    LET r    == getReplies(buf)
        rest == SubSeq(buf, r.endpos + 1, Len(buf))
        line == r.lines[1]
    IN  IF r.lines = <<>>
        THEN IF Len(buf) < PxBufSz THEN [q EXCEPT !.buf = buf]
             ELSE PxDone(q, buf, "true")
        ELSE IF Len(r.lines) # 1 THEN PxDone(q, rest, "ErrProtocol")
        ELSE IF ~IsReply(line) THEN PxDone(q, rest, "ErrProtocol")
        ELSE IF ReplyStatus(line) # "OK"
        THEN PxDone([q EXCEPT !.state = "ERR", !.info = ReplyInfo(line),
                              !.finished = TRUE], rest, "ErrRemote")
        ELSE PxDone([q EXCEPT !.state = "OK", !.finished = TRUE], rest, "true")

\* read(fd, &buffer[curPos], bufSz-curPos) returns n > 0 bytes that were
\* written to the connection, or nothing when the far end has closed it; a
\* read on an open connection without bytes blocks
PxRead ==
    /\ proxy.pc = "read"
    /\ UNCHANGED <<transfers, fdOpen, stateLock, xferLock, pc, arg, ret, dc>>
    /\ \/ \E n \in 1 .. Min(Len(ctl.down), PxBufSz - Len(proxy.buf)) :
            LET buf == proxy.buf \o SubSeq(ctl.down, 1, n)
            IN  /\ ctl' = [ctl EXCEPT !.down = SubSeq(@, n + 1, Len(@))]
                /\ proxy' = IF proxy.op \in {"rm", "sf"} THEN PxLoopOne(proxy, buf)
                            ELSE PxLoop(proxy, buf)
       \/ /\ ctl.down = <<>>
          /\ ctl.closed
          /\ proxy' = PxDone(proxy, proxy.buf, "ErrRead")
          /\ UNCHANGED ctl

\* the client picks up the result of the call
PxReturn ==
    /\ proxy.pc = "done"
    /\ proxy' = NoCall
    /\ UNCHANGED <<transfers, fdOpen, stateLock, xferLock, pc, arg, ret, ctl, dc>>

(***************************************************************************)
(* ETDServerWrapper::handle                                                *)
(***************************************************************************)
\* the Service whose ETDServerWrapper serves the client's connection
Remote == 1

\* the paths a client names in its calls of the ETDProxy
ProxyPaths == {"/c", " /c"}

\* \s+(\S.*)$ on a file name: the blanks in front of it go to \s+
LStrip(path) == IF path = " /c" THEN "/c" ELSE path

\* uuid_type(fields[1].str())
ParseUUID(t) == IF IsDigit(t) THEN Num(t) ELSE None

\* the regex of the commands that matches the line, and its submatches
ParseCmd(line) ==
    IF /\ Len(line) = 4
       /\ line[1] = "write-file-" /\ IsToken(<<line[2]>>) /\ line[3] = Blank
       /\ LStrip(line[4]) # ""
    THEN [NoParams EXCEPT !.op = "rfw", !.mode = ParseMode(line[2]),
                          !.path = LStrip(line[4])]
    ELSE IF /\ Len(line) = 5
            /\ line[1] = "read-file" /\ line[2] = Blank /\ IsDigits(<<line[3]>>)
            /\ line[4] = Blank /\ LStrip(line[5]) # ""
    THEN [NoParams EXCEPT !.op = "rfr", !.have = string2off_t(<<line[3]>>),
                          !.path = LStrip(line[5])]
    ELSE IF /\ Len(line) = 3
            /\ line[1] = "remove-uuid" /\ line[2] = Blank /\ IsToken(<<line[3]>>)
    THEN [NoParams EXCEPT !.op = "rm", !.uuid = ParseUUID(line[3])]
    ELSE [NoParams EXCEPT !.op = "unknown"]

\* a command line has come in and matches rxReqFileWrite: the call of
\* requestFileWrite of the ETDServer
WrWriteFile ==
    /\ ctl.cmd # <<>>
    /\ ParseCmd(ctl.cmd).op = "rfw"
    /\ RequestFileWrite(Remote, ParseCmd(ctl.cmd).path, ParseCmd(ctl.cmd).mode)

\* the line matches rxReqFileRead
WrReadFile ==
    /\ ctl.cmd # <<>>
    /\ ParseCmd(ctl.cmd).op = "rfr"
    /\ RequestFileRead(Remote, ParseCmd(ctl.cmd).path, ParseCmd(ctl.cmd).have)

\* the line matches rxRemoveUUID
WrRemoveUUID ==
    /\ ctl.cmd # <<>>
    /\ ParseCmd(ctl.cmd).op = "rm"
    /\ RemoveUUID(Remote, ParseCmd(ctl.cmd).uuid)

\* faulty variant: the line behind the one that was handled is passed over
NextLineSkip(c) ==
    IF Len(c.lines) < 2 THEN [c EXCEPT !.cmd = <<>>, !.lines = <<>>]
    ELSE [c EXCEPT !.cmd = c.lines[2], !.lines = Tail(Tail(c.lines))]

\* line++ in for( ; line!=lines.end(); line++ ): the next line of the same
\* read, if there is one
NextLine(c) ==
    IF c.lines = <<>> THEN [c EXCEPT !.cmd = <<>>]
    ELSE [c EXCEPT !.cmd = Head(c.lines), !.lines = Tail(c.lines)]

\* the line matches no regex: the connection is closed, the std::string that
\* is thrown sets terminated; no reply, and on to the next line of the read
WrUnknown ==
    /\ pc[Remote] = "idle"
    /\ ctl.cmd # <<>>
    /\ ParseCmd(ctl.cmd).op = "unknown"
    /\ ctl' = NextLine([ctl EXCEPT !.closed = TRUE])
    /\ UNCHANGED <<transfers, fdOpen, stateLock, xferLock, pc, arg, ret, proxy, dc>>

\* faulty variant: the OK that ends a reply is written behind the ERR line too
RepliesErrOk(op, result, uuid, count) ==
    IF result = "ok"
    THEN <<(IF op = "rfw" THEN "AlreadyHave:" ELSE "Remain:"), FmtInt(count), NL,
           "UUID:", FmtInt(uuid), NL, "OK", NL>>
    ELSE IF result = "true" THEN <<"OK", NL>>
    ELSE IF result = "false" THEN <<"ERR", Blank, "FailedToRemoveUUID", NL>>
    ELSE <<"ERR", Blank, result, NL, "OK", NL>>

\* the replies to a call that has returned or has thrown a std::exception
Replies(op, result, uuid, count) ==
    IF result = "ok"
    THEN <<(IF op = "rfw" THEN "AlreadyHave:" ELSE "Remain:"), FmtInt(count), NL,
           "UUID:", FmtInt(uuid), NL, "OK", NL>>
    ELSE IF result = "true" THEN <<"OK", NL>>
    ELSE IF result = "false" THEN <<"ERR", Blank, "FailedToRemoveUUID", NL>>
    ELSE <<"ERR", Blank, result, NL>>

\* the replies are written, each with its newline, the result of write is
\* not looked at: on a connection that was closed nothing is written; on
\* to the next line of the read, or to the next read
WrReply ==
    /\ pc[Remote] = "done"
    /\ ctl.cmd # <<>>
    /\ ctl' = NextLine([ctl EXCEPT
                 !.down = IF ctl.closed THEN @
                          ELSE @ \o Replies(arg[Remote].op, ret[Remote], Remote,
                                            arg[Remote].cnt),
                 !.served = [ret |-> ret[Remote], cnt |-> arg[Remote].cnt]])
    /\ pc'  = [pc  EXCEPT ![Remote] = "idle"]
    /\ ret' = [ret EXCEPT ![Remote] = "none"]
    /\ arg' = [arg EXCEPT ![Remote] = NoArg]
    /\ UNCHANGED <<transfers, fdOpen, stateLock, xferLock, proxy, dc>>

\* the calls of a client on requestFileWrite, requestFileRead and removeUUID
\* of its ETDProxy
ControlCalls ==
    { [NoParams EXCEPT !.op = "rfw", !.path = p, !.mode = m] :
          p \in ProxyPaths, m \in OpenModes }
    \cup { [NoParams EXCEPT !.op = "rfr", !.path = p, !.have = h] :
          p \in ProxyPaths, h \in -1 .. MaxHave }
    \cup { [NoParams EXCEPT !.op = "rm", !.uuid = u] : u \in UUIDs }

(***************************************************************************)
(* A client that writes command lines itself                               *)
(***************************************************************************)
\* the most command lines the client writes on one connection
MaxCmds == 3

\* the command lines the client writes: commands of the protocol and a line
\* that is none
ClientLines ==
    { Command([NoParams EXCEPT !.op = "rfw", !.path = "/c", !.mode = "New"]),
      Command([NoParams EXCEPT !.op = "rfr", !.path = "/c"]),
      Command([NoParams EXCEPT !.op = "rm", !.uuid = Remote]),
      Command([NoParams EXCEPT !.op = "rm", !.uuid = Remote + 1]),
      <<"bogus">> }

\* the lines of all reads, in the order they were written
RECURSIVE Flat(_)
Flat(reads) == IF reads = <<>> THEN <<>> ELSE Head(reads) \o Flat(Tail(reads))

\* the client has written the lines ls, and one read of the ETDServerWrapper,
\* which has handled all lines of the read before, returns them
ClientSend(ls) ==
    /\ ls # <<>>
    /\ ~ctl.closed
    /\ pc[Remote] = "idle"
    /\ ctl.cmd = <<>>
    /\ Len(Flat(ctl.log)) + Len(ls) <= MaxCmds
    /\ ctl' = [ctl EXCEPT !.cmd = Head(ls), !.lines = Tail(ls), !.log = Append(@, ls)]
    /\ UNCHANGED <<transfers, fdOpen, stateLock, xferLock, pc, arg, ret, proxy, dc>>

(***************************************************************************)
(* A peer of the ETDProxy that writes whatever it likes                    *)
(***************************************************************************)
\* the most reply bytes the peer writes on one connection
MaxReply == 4

\* the pieces the peer writes
PeerSyms == {"OK", "ERR", Blank, "x", "UUID:", "AlreadyHave:", "Remain:", "0", NL}

\* one call of each operation of the ETDProxy
ReplyCalls ==
    { [NoParams EXCEPT !.op = "list", !.path = "/c"],
      [NoParams EXCEPT !.op = "rfw", !.path = "/c", !.mode = "New"],
      [NoParams EXCEPT !.op = "rfr", !.path = "/c"],
      [NoParams EXCEPT !.op = "dca"],
      [NoParams EXCEPT !.op = "rm", !.uuid = 1],
      [NoParams EXCEPT !.op = "sf", !.uuid = 1, !.dst = 2, !.todo = 1, !.addrs = <<1>>] }

PeerWrite(sym) ==
    /\ ~ctl.closed
    /\ ctl.sent < MaxReply
    /\ ctl' = [ctl EXCEPT !.down = Append(@, sym), !.sent = @ + 1]
    /\ UNCHANGED <<transfers, fdOpen, stateLock, xferLock, pc, arg, ret, proxy, dc>>

PeerClose ==
    /\ ~ctl.closed
    /\ ctl' = [ctl EXCEPT !.closed = TRUE]
    /\ UNCHANGED <<transfers, fdOpen, stateLock, xferLock, pc, arg, ret, proxy, dc>>

\* the number of reply lines that a peer which writes whole lines writes
MaxLines == 3

\* the reply lines of such a peer: an entry, the OK that ends the reply, an
\* error with and without a message, and an entry and an error in lower case
EntryLines ==
    { <<"OK", Blank, "x">>, <<"OK">>, <<"ERR", Blank, "x">>, <<"ERR">>,
      <<"ok", Blank, "x">>, <<"err", Blank, "x">> }

\* the calls of a client on listPath and dataChannelAddr of its ETDProxy
ListCalls ==
    { [NoParams EXCEPT !.op = "list", !.path = "/c"], [NoParams EXCEPT !.op = "dca"] }

\* the peer writes one more line of its reply to the pending call; the
\* lines it has written are noted in log
PeerLine(l) ==
    /\ proxy.pc = "read"
    /\ ~ctl.closed
    /\ ctl.sent < MaxLines
    /\ ctl' = [ctl EXCEPT !.cmd = <<>>, !.down = @ \o l \o <<NL>>, !.sent = @ + 1,
                          !.log = Append(@, l)]
    /\ UNCHANGED <<transfers, fdOpen, stateLock, xferLock, pc, arg, ret, proxy, dc>>

(***************************************************************************)
(* A peer of the ETDProxy that answers write-file with the three reply     *)
(* lines in an order of its choice                                         *)
(***************************************************************************)
\* the lines AlreadyHave:<n>, UUID:<uuid> and OK
ReplyLines(n) == <<<<"AlreadyHave:", FmtInt(n)>>, <<"UUID:", FmtInt(Remote)>>, <<"OK">>>>

\* the six orders of three lines
Orders == {o \in [1 .. 3 -> 1 .. 3] : \A i, j \in 1 .. 3 : o[i] = o[j] => i = j}

\* the lines in that order, each with its newline
InOrder(lines, o) ==
    lines[o[1]] \o <<NL>> \o lines[o[2]] \o <<NL>> \o lines[o[3]] \o <<NL>>

\* the calls of a client on requestFileWrite of its ETDProxy
OrderCalls == {[NoParams EXCEPT !.op = "rfw", !.path = "/c", !.mode = m] : m \in OpenModes}

\* the peer answers the pending write-file command of a call that has read
\* nothing yet, on a connection without bytes in flight
PeerOrdered(o, n) ==
    /\ proxy.pc = "read"
    /\ proxy.op = "rfw"
    /\ ctl.cmd # <<>>
    /\ ~ctl.closed
    /\ ctl.down = <<>>
    /\ proxy.buf = <<>> /\ proxy.curUUID = <<>> /\ proxy.filePos = <<>>
    /\ ctl' = [ctl EXCEPT !.cmd = <<>>, !.down = InOrder(ReplyLines(n), o),
                          !.served = [ret |-> "ok", cnt |-> n]]
    /\ UNCHANGED <<transfers, fdOpen, stateLock, xferLock, pc, arg, ret, proxy, dc>>

(***************************************************************************)
(* The data protocol, byte by byte                                         *)
(***************************************************************************)
\* maxNoCmdSz and bufSz of ETDDataServer::handle, in pieces, and the number
\* of bits of a size_t
MaxNoCmdSz == 6
DsBufSz    == 7
SizeBits   == 4
\* the number of bytes in a file that is read, and the number of payload
\* bytes that a client of the data server that is not sendFile or getFile
\* writes
MaxFile    == 2
MaxPeer    == 3

\* size_t arithmetic is modulo SizeMod
SizeMod == 2 ^ SizeBits

\* What is on a data connection is a sequence of pieces [k, v]: "{" and "}",
\* a key-value pair "uuid" or "sz" or "push" with its value, a payload byte
\* "byte" with its value, the acknowledgement "y"
Piece(k, v) == [k |-> k, v |-> v]

\* faulty variant: sendFile writes push:1 and getFile does not
HeaderFlipped(u, sz, push) ==
    <<Piece("{", 0), Piece("uuid", u)>>
       \o (IF push THEN <<>> ELSE <<Piece("push", 1)>>)
       \o <<Piece("sz", sz), Piece("}", 0)>>

\* msg_buf << "{ uuid:" << dstUUID << ", sz:" << todo << "}" of sendFile, and
\* "{ uuid:" << srcUUID << ", push:1, sz:" << todo << "}" of getFile
Header(u, sz, push) ==
    <<Piece("{", 0), Piece("uuid", u)>>
       \o (IF push THEN <<Piece("push", 1)>> ELSE <<>>)
       \o <<Piece("sz", sz), Piece("}", 0)>>

\* the k bytes of a file that follow its first from bytes
Bytes(from, k) == [i \in 1 .. k |-> from + i]

\* the same as payload on the connection
Payload(from, k) == [i \in 1 .. k |-> Piece("byte", from + i)]

\* faulty variant: the bytes are written to the file last byte first
ValuesReversed(ps) == [i \in 1 .. Len(ps) |-> ps[Len(ps) + 1 - i].v]

\* the values of pieces, as written to a file
Values(ps) == [i \in 1 .. Len(ps) |-> ps[i].v]

\* rxCommand "^(\{([^\}]*)\})" on buffer[0 .. curPos): command.position() +
\* command.length() of the match, 0 if there is none
CommandEnd(buf) ==
    IF Len(buf) = 0 \/ buf[1].k # "{" THEN 0
    ELSE LET ends == {j \in 2 .. Len(buf) : buf[j].k = "}"}
         IN  IF ends = {} THEN 0
             ELSE CHOOSE j \in ends : \A i \in ends : j <= i

\* etdc::case_insensitive_lt of kvmap_type: keys that differ in case only
\* are the same key
Lower(k) ==
    CASE k = "UUID" -> "uuid"
      [] k = "SZ"   -> "sz"
      [] k = "PUSH" -> "push"
      [] OTHER      -> k

\* kvpairs.find(key): the value of the first pair with this key between the
\* braces, or <<>>
Find(buf, key) ==
    LET hits == {j \in 2 .. CommandEnd(buf) - 1 : Lower(buf[j].k) = key}
    IN  IF hits = {} THEN <<>>
        ELSE <<buf[CHOOSE j \in hits : \A i \in hits : j <= i].v>>

\* a new connection of thread c to the data server, served by thread d; the
\* files stay as they are
NewConn(c, d, hdr) ==
    [NoData EXCEPT !.cli = c, !.srv = d, !.up = hdr, !.rd = dc.rd, !.wr = dc.wr,
                   !.push = \E i \in 1 .. Len(hdr) : hdr[i].k = "push",
                   !.src = IF c \in UUIDs THEN dc.rd[c] ELSE 0]

\* a thread of the data server is free to take a new connection
CanAccept(d) == pc[d] = "idle" /\ (dc.cli = None \/ dc.srvClosed)

\* sendFile: mk_client over dataAddrs, then the header is written
DcSfConnect(s, dstUUID) ==
    /\ pc[s] = "sf_conn"
    /\ \E d \in DataThreads :
          /\ CanAccept(d)
          /\ Connect(s, "sf_copy")
          /\ dc' = IF pc'[s] = "sf_copy"
                   THEN NewConn(s, d, Header(dstUUID, arg[s].todo, FALSE))
                   ELSE dc
    /\ UNCHANGED <<proxy, ctl>>

\* sendFile, inner while(todo > 0): n = min(todo, bufSz) bytes are read from
\* the file and written to the connection, or one of the two fails and the
\* exception closes the connection
DcSfCopy(s) ==
    /\ pc[s] = "sf_copy"
    /\ dc.cli = s
    /\ UNCHANGED <<proxy, ctl>>
    /\ IF arg[s].todo > 0
       THEN LET k == Min(arg[s].todo, BufSz)
            IN  \/ /\ dc.rd[s] + k <= MaxFile
                   /\ Copy(s, "sf_copy", [arg[s] EXCEPT !.todo = @ - k, !.moved = @ + k])
                   /\ dc' = [dc EXCEPT !.rd[s] = @ + k,
                                       !.up = IF dc.srvClosed THEN @
                                              ELSE @ \o Payload(dc.rd[s], k)]
                \/ /\ Abort(s, s, "ErrIO")
                   /\ \E adv \in {0, IF dc.rd[s] + k <= MaxFile THEN k ELSE 0} :
                         dc' = [dc EXCEPT !.rd[s] = @ + adv, !.cliClosed = TRUE]
       ELSE /\ Copy(s, "sf_ack", arg[s])
            /\ UNCHANGED dc

\* sendFile: dstFD->read(&ack, 1) returns when a byte is there or the far end
\* is closed; what it returns is not looked at. The record's lock and the
\* connection go out of scope, todo <= 0 ends the loop
DcSfAck(s) ==
    /\ pc[s] = "sf_ack"
    /\ dc.cli = s
    /\ Len(dc.dn) > 0 \/ dc.srvClosed
    /\ LET got == IF Len(dc.dn) > 0 THEN 1 ELSE 0
       IN  /\ arg' = [arg EXCEPT ![s] = [NoArg EXCEPT !.op = "sf", !.n = arg[s].n,
                                           !.hdr = arg[s].hdr, !.moved = arg[s].moved,
                                           !.ack = got]]
           /\ dc' = [dc EXCEPT !.dn = SubSeq(@, got + 1, Len(@)), !.cliClosed = TRUE]
    /\ xferLock' = Unlock(s)
    /\ pc'  = [pc  EXCEPT ![s] = "done"]
    /\ ret' = [ret EXCEPT ![s] = "true"]
    /\ UNCHANGED <<transfers, fdOpen, stateLock, proxy, ctl>>

\* getFile: mk_client over dataAddrs, then the header with push:1 is written
DcGfConnect(s, srcUUID) ==
    /\ pc[s] = "gf_conn"
    /\ \E d \in DataThreads :
          /\ CanAccept(d)
          /\ Connect(s, "gf_copy")
          /\ dc' = IF pc'[s] = "gf_copy"
                   THEN NewConn(s, d, Header(srcUUID, arg[s].todo, TRUE))
                   ELSE dc
    /\ UNCHANGED <<proxy, ctl>>

\* getFile, inner while(todo > 0): n = read(dstFD, bufSz); if( n > 0 ) the n
\* bytes are written to the file and todo -= n; a read that returns 0 on a
\* closed connection changes nothing and the loop reads again
DcGfCopy(s) ==
    /\ pc[s] = "gf_copy"
    /\ dc.cli = s
    /\ UNCHANGED <<proxy, ctl>>
    /\ IF arg[s].todo > 0
       THEN \/ \E k \in 1 .. Min(Len(dc.dn), BufSz) :
                 \/ /\ Copy(s, "gf_copy", [arg[s] EXCEPT !.todo = @ - k, !.moved = @ + k])
                    /\ dc' = [dc EXCEPT !.dn = SubSeq(@, k + 1, Len(@)),
                                        !.wr[s] = @ \o Values(SubSeq(dc.dn, 1, k))]
                 \/ /\ Abort(s, s, "ErrIO")
                    /\ dc' = [dc EXCEPT !.dn = SubSeq(@, k + 1, Len(@)),
                                        !.cliClosed = TRUE]
            \/ /\ Len(dc.dn) = 0
               /\ dc.srvClosed
               /\ Copy(s, "gf_copy", [arg[s] EXCEPT !.eof = TRUE])
               /\ UNCHANGED dc
       ELSE /\ Copy(s, "gf_ack", arg[s])
            /\ UNCHANGED dc

\* getFile: the acknowledgement 'y' is written, the result of the write is
\* not looked at
DcGfAck(s) ==
    /\ pc[s] = "gf_ack"
    /\ dc.cli = s
    /\ dc' = [dc EXCEPT !.up = IF dc.srvClosed THEN @ ELSE Append(@, Piece("y", 0)),
                        !.cliClosed = TRUE]
    /\ xferLock' = Unlock(s)
    /\ pc'  = [pc  EXCEPT ![s] = "done"]
    /\ ret' = [ret EXCEPT ![s] = "true"]
    /\ arg' = [arg EXCEPT ![s] = [NoArg EXCEPT !.op = "gf", !.n = arg[s].n,
                                    !.hdr = arg[s].hdr, !.moved = arg[s].moved,
                                    !.ack = 1]]
    /\ UNCHANGED <<transfers, fdOpen, stateLock, proxy, ctl>>

\* an exception leaves ETDDataServer::handle, or its loop ends: the thread is
\* at "done" until the connection is closed
DcFail(d, e) ==
    /\ Finish(d, e)
    /\ UNCHANGED <<transfers, fdOpen, stateLock, xferLock>>

\* etdc::no_duplicates_inserter(kvpairs, kvpairs.end()): a key that is in
\* the map already is an error
Duplicate(buf) ==
    \E i, j \in 2 .. CommandEnd(buf) - 1 :
        i < j /\ Lower(buf[i].k) = Lower(buf[j].k)

\* faulty variant: push is accepted with whatever value it has
HeaderOkAnyPush(buf) ==
    /\ ~Duplicate(buf)
    /\ Find(buf, "uuid") # <<>>
    /\ Find(buf, "sz") # <<>>

\* the key-value pairs of the command are collected and checked:
\* ETDCASSERT(uuidptr != end), ETDCASSERT(szptr != end),
\* ETDCASSERT(pushptr == end || pushptr->second == "1")
HeaderOk(buf) ==
    /\ ~Duplicate(buf)
    /\ Find(buf, "uuid") # <<>>
    /\ Find(buf, "sz") # <<>>
    /\ Find(buf, "push") \in {<<>>, <<1>>}

\* ETDDataServer::handle, one round of the loop up to the lock: read into
\* buffer[curPos ..), ETDCASSERT(n > 0), ETDCASSERT(buffer[0] == '{'), look
\* for a command, and if there is one take uuid, sz and push from it
DcRead(d) ==
    /\ pc[d] = "idle"
    /\ dc.srv = d
    /\ ~dc.srvClosed
    /\ UNCHANGED <<proxy, ctl>>
    /\ \/ \E k \in 1 .. Min(Len(dc.up), MaxNoCmdSz - Len(dc.buf)) :
            LET buf  == dc.buf \o SubSeq(dc.up, 1, k)
                rest == SubSeq(dc.up, k + 1, Len(dc.up))
                uuid == Find(buf, "uuid")
                sz   == Find(buf, "sz")
                push == Find(buf, "push")
            IN  IF buf[1].k # "{"
                THEN /\ DcFail(d, "ErrHeader")
                     /\ dc' = [dc EXCEPT !.up = rest, !.buf = buf]
                ELSE IF CommandEnd(buf) = 0
                THEN /\ dc' = [dc EXCEPT !.up = rest, !.buf = buf]
                     /\ IF Len(buf) < MaxNoCmdSz
                        THEN UNCHANGED <<transfers, fdOpen, stateLock, xferLock,
                                         pc, arg, ret>>
                        ELSE DcFail(d, "terminated")
                ELSE IF ~HeaderOk(buf)
                THEN /\ DcFail(d, "ErrHeader")
                     /\ dc' = [dc EXCEPT !.up = rest, !.buf = buf]
                ELSE /\ pc'  = [pc  EXCEPT ![d] = "ds_lock"]
                     /\ arg' = [arg EXCEPT ![d] =
                                   [NoArg EXCEPT !.op = "ds", !.uuid = uuid[1],
                                                 !.push = push # <<>>,
                                                 !.todo = sz[1] % SizeMod]]
                     /\ dc' = [dc EXCEPT !.up = rest, !.buf = buf, !.n = sz[1],
                                         !.base = IF uuid[1] \in UUIDs
                                                  THEN Len(dc.wr[uuid[1]]) ELSE 0]
                     /\ UNCHANGED <<transfers, fdOpen, stateLock, xferLock, ret>>
       \/ /\ Len(dc.up) = 0
          /\ dc.cliClosed
          /\ DcFail(d, "ErrRead")
          /\ UNCHANGED dc

\* what src->read(fd, &buf[wrEnd], nRead) of pull_n can return: 0 for a read
\* of no bytes, a part of what is on the connection, 0 on a connection that
\* the far end has closed; on an open connection without bytes it blocks
PullReads(nRead) ==
    IF nRead = 0 THEN {0}
    ELSE IF Len(dc.up) > 0 THEN 1 .. Min(nRead, Len(dc.up))
    ELSE IF dc.cliClosed THEN {0}
    ELSE {}

\* the bytes in buffer[rdPos .. endPos) when pull_n is entered: what the
\* reads for the command took in behind the command
Buffered(buf) == SubSeq(buf, CommandEnd(buf) + 1, Len(buf))

\* ETDDataServer::pull_n, one round of while( n>0 ): nRead = min(n + rdPos -
\* wrEnd, bufSz - wrEnd) in size_t; aRead bytes are read behind the buffered
\* ones; wrEnd - rdPos bytes are written to the file; n -= (wrEnd - rdPos);
\* wrEnd = rdPos = 0.  With n == 0 on to the acknowledgement
DcPull(d) ==
    /\ pc[d] = "ds_copy"
    /\ dc.srv = d
    /\ ~arg[d].push
    /\ UNCHANGED <<proxy, ctl>>
    /\ IF arg[d].todo > 0
       THEN LET u     == arg[d].uuid
                n     == arg[d].todo
                rdPos == CommandEnd(dc.buf)
                wrEnd == Len(dc.buf)
                nRead == Min((n + rdPos + SizeMod - wrEnd) % SizeMod, DsBufSz - wrEnd)
            IN  \/ \E aRead \in PullReads(nRead) :
                     LET got == Buffered(dc.buf) \o SubSeq(dc.up, 1, aRead)
                         up  == SubSeq(dc.up, aRead + 1, Len(dc.up))
                     IN  IF Len(got) = 0
                         THEN /\ Abort(d, u, "ErrShortRead")
                              /\ dc' = [dc EXCEPT !.buf = <<>>]
                         ELSE \/ /\ Copy(d, "ds_copy",
                                         [arg[d] EXCEPT !.todo =
                                             (n + SizeMod - Len(got)) % SizeMod])
                                 /\ dc' = [dc EXCEPT !.up = up, !.buf = <<>>,
                                                     !.wr[u] = @ \o Values(got)]
                              \/ /\ Abort(d, u, "ErrIO")
                                 /\ dc' = [dc EXCEPT !.up = up, !.buf = <<>>]
                \/ /\ Abort(d, u, "ErrRead")
                   /\ dc' = [dc EXCEPT !.buf = <<>>]
       ELSE /\ Copy(d, "ds_ack", arg[d])
            /\ UNCHANGED dc

\* ETDDataServer::push_n, one round of while( n>0 ): nRead = min(n, bufSz)
\* bytes are read from the file and written to the connection, or one of
\* the two fails.  With n == 0 on to the acknowledgement
DcPush(d) ==
    /\ pc[d] = "ds_copy"
    /\ dc.srv = d
    /\ arg[d].push
    /\ UNCHANGED <<proxy, ctl>>
    /\ IF arg[d].todo > 0
       THEN LET u == arg[d].uuid
                k == Min(arg[d].todo, DsBufSz)
            IN  \/ /\ dc.rd[u] + k <= MaxFile
                   /\ Copy(d, "ds_copy", [arg[d] EXCEPT !.todo = @ - k])
                   /\ dc' = [dc EXCEPT !.rd[u] = @ + k, !.buf = <<>>,
                                       !.dn = IF dc.cliClosed THEN @
                                              ELSE @ \o Payload(dc.rd[u], k)]
                \/ /\ Abort(d, u, "ErrIO")
                   /\ dc' = [dc EXCEPT !.buf = <<>>]
       ELSE /\ Copy(d, "ds_ack", arg[d])
            /\ UNCHANGED dc

\* the end of pull_n and push_n and of the round of handle: pull_n writes
\* the acknowledgement 'y', push_n reads one byte, which returns when a byte
\* is there or the far end is closed; neither result is looked at.  The
\* record's lock goes out of scope, curPos = 0
DcDsAck(d) ==
    /\ pc[d] = "ds_ack"
    /\ dc.srv = d
    /\ arg[d].push => (Len(dc.up) > 0 \/ dc.cliClosed)
    /\ dc' = IF arg[d].push
             THEN [dc EXCEPT !.up = SubSeq(@, 2, Len(@)), !.buf = <<>>]
             ELSE [dc EXCEPT !.dn = IF dc.cliClosed THEN @
                                    ELSE Append(@, Piece("y", 0)),
                             !.buf = <<>>]
    /\ xferLock' = Unlock(arg[d].uuid)
    /\ pc'  = [pc  EXCEPT ![d] = "idle"]
    /\ arg' = [arg EXCEPT ![d] = NoArg]
    /\ UNCHANGED <<transfers, fdOpen, stateLock, ret, proxy, ctl>>

\* handle() has ended: the connection is closed and the thread is gone
DcEnd(d) ==
    /\ pc[d] = "done"
    /\ dc.srv = d
    /\ dc' = [dc EXCEPT !.srvClosed = TRUE, !.buf = <<>>]
    /\ pc'  = [pc  EXCEPT ![d] = "idle"]
    /\ ret' = [ret EXCEPT ![d] = "none"]
    /\ arg' = [arg EXCEPT ![d] = NoArg]
    /\ UNCHANGED <<transfers, fdOpen, stateLock, xferLock, proxy, ctl>>

\* a client of the data server that writes bytes itself
Peer == NumSvc + NumData + 1

\* the client connects and writes a header without push
DcPeerHeader(u, n) ==
    /\ dc.cli = None
    /\ \E d \in DataThreads :
          /\ CanAccept(d)
          /\ dc' = NewConn(Peer, d, Header(u, n, FALSE))
    /\ UNCHANGED <<transfers, fdOpen, stateLock, xferLock, pc, arg, ret, proxy, ctl>>

\* the headers that a client which writes the bytes itself may write: well
\* formed for a pull or a push, with a negative sz, a payload byte in place
\* of the brace, without uuid, without sz, with a key twice, in the same
\* case or not, with push:0, and MaxNoCmdSz bytes without a closing brace
RawHeaders ==
    LET open  == Piece("{", 0)
        close == Piece("}", 0)
    IN  { Header(1, 1, FALSE), Header(1, 1, TRUE), Header(1, 0 - 1, FALSE),
          <<Piece("byte", 1)>>,
          <<open, Piece("sz", 1), close>>,
          <<open, Piece("uuid", 1), close>>,
          <<open, Piece("uuid", 1), Piece("uuid", 2), Piece("sz", 1), close>>,
          <<open, Piece("uuid", 1), Piece("sz", 1), Piece("SZ", 1), close>>,
          <<open, Piece("uuid", 1), Piece("push", 0), Piece("sz", 1), close>>,
          <<open>> \o [i \in 1 .. MaxNoCmdSz - 1 |-> Piece("pad", 0)] }

\* the client connects and writes one of them
DcPeerRaw(h) ==
    /\ dc.cli = None
    /\ \E d \in DataThreads :
          /\ CanAccept(d)
          /\ dc' = NewConn(Peer, d, h)
    /\ UNCHANGED <<transfers, fdOpen, stateLock, xferLock, pc, arg, ret, proxy, ctl>>

\* it writes one more byte of payload, whatever the sz of its header was
DcPeerByte ==
    /\ dc.cli = Peer
    /\ ~dc.cliClosed
    /\ dc.sent < MaxPeer
    /\ dc' = [dc EXCEPT !.sent = @ + 1,
                        !.up = IF dc.srvClosed THEN @
                               ELSE Append(@, Piece("byte", dc.sent + 1))]
    /\ UNCHANGED <<transfers, fdOpen, stateLock, xferLock, pc, arg, ret, proxy, ctl>>

\* it closes the connection
DcPeerClose ==
    /\ dc.cli = Peer
    /\ ~dc.cliClosed
    /\ dc' = [dc EXCEPT !.cliClosed = TRUE]
    /\ UNCHANGED <<transfers, fdOpen, stateLock, xferLock, pc, arg, ret, proxy, ctl>>

(***************************************************************************)
(* The rounds of the lock loops, statement by statement                    *)
(***************************************************************************)
\* where a thread stands at the top of the lock loop of removeUUID,
\* sendFile, getFile and ETDDataServer::handle
LockPcs == {"rm_lock", "sf_lock", "gf_lock", "ds_lock"}

\* std::unique_lock<std::mutex> lk(shared_state.lock): the thread waits
\* until stateLock is free and takes it
LkLock(p) ==
    /\ pc[p] \in LockPcs
    /\ UNCHANGED ctlvars
    /\ stateLock = None
    /\ stateLock' = p
    /\ pc' = [pc EXCEPT ![p] = "lk_find"]
    /\ UNCHANGED <<transfers, fdOpen, xferLock, arg, ret>>

\* transfers.find(uuid) and std::unique_lock sh(record.lock,
\* std::try_to_lock) with stateLock held: no record (removeUUID returns
\* false, the others throw), the record's lock is taken, or try_lock fails
\* and the thread unlocks stateLock, sleeps and starts the loop again
LkTry(p) ==
    /\ pc[p] = "lk_find"
    /\ UNCHANGED ctlvars
    /\ UNCHANGED <<transfers, fdOpen>>
    /\ LET u  == arg[p].uuid
           op == arg[p].op
       IN  IF ~Found(u)
           THEN /\ stateLock' = None
                /\ UNCHANGED xferLock
                /\ Finish(p, CASE op = "rm" -> "false"
                               [] op = "ds" -> "ErrNoTransfer"
                               [] OTHER     -> "ErrNotInit")
           ELSE IF TryLock(u)
           THEN /\ xferLock' = [xferLock EXCEPT ![u] = p]
                /\ pc' = [pc EXCEPT ![p] = IF op = "rm" THEN "rm_both" ELSE "lk_both"]
                /\ UNCHANGED <<stateLock, arg, ret>>
           ELSE /\ stateLock' = BackOff(p)
                /\ pc' = [pc EXCEPT ![p] = CASE op = "rm" -> "rm_lock"
                                             [] op = "sf" -> "sf_lock"
                                             [] op = "gf" -> "gf_lock"
                                             [] OTHER     -> "ds_lock"]
                /\ UNCHANGED <<xferLock, arg, ret>>

\* with both locks held: sendFile and getFile unlock stateLock and check the
\* open mode, ETDDataServer::handle checks the open mode and leaves the
\* loop, which unlocks stateLock; a mode that does not fit is an exception
\* that releases the record's lock as well
LkUnlock(p) ==
    /\ pc[p] = "lk_both"
    /\ UNCHANGED ctlvars
    /\ UNCHANGED <<transfers, fdOpen>>
    /\ stateLock' = None
    /\ LET u  == arg[p].uuid
           op == arg[p].op
           ok == CASE op = "sf" -> {"Read"}
                   [] op = "gf" -> allowedWriteModes
                   [] OTHER     -> IF arg[p].push THEN allowedReadModes
                                   ELSE allowedWriteModes
       IN  IF transfers[u].openMode \in ok
           THEN /\ pc' = [pc EXCEPT ![p] = CASE op = "sf" -> "sf_conn"
                                             [] op = "gf" -> "gf_conn"
                                             [] OTHER     -> "ds_copy"]
                /\ UNCHANGED <<xferLock, arg, ret>>
           ELSE /\ xferLock' = Unwind(u)
                /\ Finish(p, CASE op = "sf" -> "ErrNotRead"
                               [] op = "gf" -> "ErrNotWrite"
                               [] OTHER     -> "ErrModeMismatch")

(***************************************************************************)
(* ETDServer::~ETDServer                                                   *)
(***************************************************************************)
\* the destructor runs when no call of the Service is under way: it calls
\* this->removeUUID(__m_uuid)
Destroy(s) ==
    /\ pc[s] = "idle"
    /\ UNCHANGED ctlvars
    /\ pc'  = [pc  EXCEPT ![s] = "rm_lock"]
    /\ arg' = [arg EXCEPT ![s] = [NoArg EXCEPT !.op = "dtor", !.uuid = s]]
    /\ UNCHANGED <<transfers, fdOpen, stateLock, xferLock, ret>>

\* removeUUID has returned, or catch(...) {} has taken what it threw: the
\* Service is gone and makes no more calls
Gone(s) ==
    /\ pc[s] = "done"
    /\ arg[s].op = "dtor"
    /\ UNCHANGED ctlvars
    /\ pc'  = [pc  EXCEPT ![s] = "gone"]
    /\ ret' = [ret EXCEPT ![s] = "none"]
    /\ arg' = [arg EXCEPT ![s] = NoArg]
    /\ UNCHANGED <<transfers, fdOpen, stateLock, xferLock>>

Next ==
    \/ \E s \in Services, path \in RawPaths, mode \in OpenModes :
           RequestFileWrite(s, path, mode)
    \/ \E s \in Services : RfwOpen(s)
    \/ \E s \in Services, path \in RawPaths, have \in 0 .. MaxHave :
           RequestFileRead(s, path, have)
    \/ \E s \in Services : RfrOpen(s)
    \/ \E s \in Services, u \in UUIDs : RemoveUUID(s, u)
    \/ \E s \in Services : RmTry(s)
    \/ \E s \in Services : RmErase(s)
    \/ \E s \in Services, u \in UUIDs, n \in 0 .. MaxTodo, as \in OneAddr :
           SendFile(s, u, n, as)
    \/ \E s \in Services : SfTry(s)
    \/ \E s \in Services : SfConnect(s)
    \/ \E s \in Services : SfCopy(s)
    \/ \E s \in Services : SfAck(s)
    \/ \E s \in Services, u \in UUIDs, n \in 0 .. MaxTodo, as \in OneAddr :
           GetFile(s, u, n, as)
    \/ \E s \in Services : GfTry(s)
    \/ \E s \in Services : GfConnect(s)
    \/ \E s \in Services : GfCopy(s)
    \/ \E s \in Services : GfAck(s)
    \/ \E d \in DataThreads, u \in UUIDs, push \in BOOLEAN, n \in 0 .. MaxTodo :
           DsHeader(d, u, push, n)
    \/ \E d \in DataThreads : DsReject(d)
    \/ \E d \in DataThreads : DsTry(d)
    \/ \E d \in DataThreads : DsCopy(d)
    \/ \E d \in DataThreads : DsAck(d)
    \/ \E p \in Procs : Return(p)

\* every thread of the daemon at work; callers of sendFile and getFile name
\* one data address
Spec == Init /\ [][Next]_vars

\* the Services' control threads alone, calling requestFileWrite,
\* requestFileRead and removeUUID
NextRegistry ==
    \/ \E s \in Services, path \in RawPaths, mode \in OpenModes :
           RequestFileWrite(s, path, mode)
    \/ \E s \in Services : RfwOpen(s)
    \/ \E s \in Services, path \in RawPaths, have \in 0 .. MaxHave :
           RequestFileRead(s, path, have)
    \/ \E s \in Services : RfrOpen(s)
    \/ \E s \in Services, u \in UUIDs : RemoveUUID(s, u)
    \/ \E s \in Services : RmTry(s)
    \/ \E s \in Services : RmErase(s)
    \/ \E p \in Procs : Return(p)

SpecRegistry == Init /\ [][NextRegistry]_vars

\* the Services' control threads alone, with every operation and with lists
\* of data addresses; no data connection comes in
NextTransfer ==
    \/ \E s \in Services, path \in RawPaths, mode \in OpenModes :
           RequestFileWrite(s, path, mode)
    \/ \E s \in Services : RfwOpen(s)
    \/ \E s \in Services, path \in RawPaths, have \in 0 .. MaxHave :
           RequestFileRead(s, path, have)
    \/ \E s \in Services : RfrOpen(s)
    \/ \E s \in Services, u \in UUIDs : RemoveUUID(s, u)
    \/ \E s \in Services : RmTry(s)
    \/ \E s \in Services : RmErase(s)
    \/ \E s \in Services, u \in UUIDs, n \in 0 .. MaxTodo, as \in AddrLists :
           SendFile(s, u, n, as)
    \/ \E s \in Services : SfTry(s)
    \/ \E s \in Services : SfConnect(s)
    \/ \E s \in Services : SfCopy(s)
    \/ \E s \in Services : SfAck(s)
    \/ \E s \in Services, u \in UUIDs, n \in 0 .. MaxTodo, as \in AddrLists :
           GetFile(s, u, n, as)
    \/ \E s \in Services : GfTry(s)
    \/ \E s \in Services : GfConnect(s)
    \/ \E s \in Services : GfCopy(s)
    \/ \E s \in Services : GfAck(s)
    \/ \E p \in Procs : Return(p)

SpecTransfer == Init /\ [][NextTransfer]_vars

\* a client calls the Service Remote through its ETDProxy and the
\* ETDServerWrapper there, while the other Services are called directly
NextControl ==
    \/ \E c \in ControlCalls : PxCall(c)
    \/ PxRead
    \/ PxReturn
    \/ WrWriteFile
    \/ WrReadFile
    \/ WrRemoveUUID
    \/ WrUnknown
    \/ WrReply
    \/ \E s \in Services \ {Remote}, path \in RawPaths, mode \in OpenModes :
           RequestFileWrite(s, path, mode)
    \/ \E s \in Services : RfwOpen(s)
    \/ \E s \in Services \ {Remote}, path \in RawPaths, have \in 0 .. MaxHave :
           RequestFileRead(s, path, have)
    \/ \E s \in Services : RfrOpen(s)
    \/ \E s \in Services \ {Remote}, u \in UUIDs : RemoveUUID(s, u)
    \/ \E s \in Services : RmTry(s)
    \/ \E s \in Services : RmErase(s)
    \/ \E s \in Services \ {Remote} : Return(s)

SpecControl == Init /\ [][NextControl]_vars

\* the ETDProxy of a client on a connection to a peer that writes whatever
\* it likes
NextReply ==
    \/ \E c \in ReplyCalls : PxCall(c)
    \/ PxRead
    \/ PxReturn
    \/ \E sym \in PeerSyms : PeerWrite(sym)
    \/ PeerClose

SpecReply == Init /\ [][NextReply]_vars

\* the ETDProxy of a client that calls requestFileWrite, on a connection to
\* a peer that answers with the three reply lines in any order
NextOrders ==
    \/ \E c \in OrderCalls : PxCall(c)
    \/ PxRead
    \/ PxReturn
    \/ \E o \in Orders, n \in 0 .. MaxSize : PeerOrdered(o, n)
    \/ PeerClose

SpecOrders == Init /\ [][NextOrders]_vars

\* the ETDServerWrapper of the Service Remote on a connection to a client
\* that writes command lines itself, one or two to a read
NextWrapper ==
    \/ \E l1 \in ClientLines : ClientSend(<<l1>>)
    \/ \E l1, l2 \in ClientLines : ClientSend(<<l1, l2>>)
    \/ WrWriteFile
    \/ WrReadFile
    \/ WrRemoveUUID
    \/ WrUnknown
    \/ WrReply
    \/ RfwOpen(Remote)
    \/ RfrOpen(Remote)
    \/ RmTry(Remote)
    \/ RmErase(Remote)

SpecWrapper == Init /\ [][NextWrapper]_vars

\* the Service that opens a file to read and the one that opens a file to
\* write
Reader == 1
Writer == NumSvc

\* a Service that opens a file to read and calls sendFile, one that opens a
\* file to write and calls getFile, each naming the record of the other, and
\* the data server of the same daemon, with the bytes on the data connection
NextData ==
    \/ RequestFileWrite(Writer, "/c", "New")
    \/ RfwOpen(Writer)
    \/ RequestFileRead(Reader, "/a/b", 0)
    \/ RfrOpen(Reader)
    \/ \E n \in 0 .. MaxTodo, as \in OneAddr : SendFile(Reader, Reader, n, as)
    \/ SfTry(Reader)
    \/ DcSfConnect(Reader, Writer)
    \/ DcSfCopy(Reader)
    \/ DcSfAck(Reader)
    \/ \E n \in 0 .. MaxTodo, as \in OneAddr : GetFile(Writer, Writer, n, as)
    \/ GfTry(Writer)
    \/ DcGfConnect(Writer, Reader)
    \/ DcGfCopy(Writer)
    \/ DcGfAck(Writer)
    \/ \E d \in DataThreads : DcRead(d)
    \/ \E d \in DataThreads : DsTry(d)
    \/ \E d \in DataThreads : DcPull(d)
    \/ \E d \in DataThreads : DcPush(d)
    \/ \E d \in DataThreads : DcDsAck(d)
    \/ \E d \in DataThreads : DcEnd(d)
    \/ \E s \in Services : Return(s)

SpecData == Init /\ [][NextData]_vars

\* a Service that opens a file for writing, and a client of the data server
\* that writes a header without push and then payload as it likes
NextPull ==
    \/ \E s \in Services, mode \in {"New", "Read"} : RequestFileWrite(s, "/c", mode)
    \/ \E s \in Services : RfwOpen(s)
    \/ \E u \in UUIDs, n \in 0 .. MaxTodo : DcPeerHeader(u, n)
    \/ DcPeerByte
    \/ DcPeerClose
    \/ \E d \in DataThreads : DcRead(d)
    \/ \E d \in DataThreads : DsTry(d)
    \/ \E d \in DataThreads : DcPull(d)
    \/ \E d \in DataThreads : DcDsAck(d)
    \/ \E d \in DataThreads : DcEnd(d)
    \/ \E s \in Services : Return(s)

SpecPull == Init /\ [][NextPull]_vars

\* the Services open files and remove their records while the data server
\* serves requests on them
NextFair ==
    \/ \E s \in Services : RequestFileWrite(s, "/c", "New")
    \/ \E s \in Services : RfwOpen(s)
    \/ \E s \in Services : RequestFileRead(s, "/a/b", 0)
    \/ \E s \in Services : RfrOpen(s)
    \/ \E s \in Services : RemoveUUID(s, s)
    \/ \E s \in Services : RmTry(s)
    \/ \E s \in Services : RmErase(s)
    \/ \E d \in DataThreads, u \in UUIDs, push \in BOOLEAN, n \in 0 .. MaxTodo :
           DsHeader(d, u, push, n)
    \/ \E d \in DataThreads : DsTry(d)
    \/ \E d \in DataThreads : DsCopy(d)
    \/ \E d \in DataThreads : DsAck(d)
    \/ \E p \in Procs : Return(p)

\* no data connection has or wants a transfer on record u
Quiet(u) ==
    \A d \in DataThreads :
        pc[d] \in {"ds_lock", "ds_copy", "ds_ack"} => arg[d].uuid # u

\* fair scheduling: a thread that can take a step takes it, and a thread
\* that waits in lock() for stateLock gets it when it is free again and
\* again; a client need not call and need not send a header.  try_lock
\* does not wait: that removeUUID finds the record's lock free between two
\* transfers, in one of the rounds it makes every 42 microseconds, is not
\* taken to be certain
Fairness ==
    /\ \A s \in Services :
          /\ WF_vars(RfwOpen(s)) /\ WF_vars(RfrOpen(s))
          /\ SF_vars(RmTry(s) /\ Quiet(s)) /\ WF_vars(RmErase(s))
    /\ \A d \in DataThreads :
          /\ SF_vars(DsTry(d)) /\ WF_vars(DsCopy(d)) /\ WF_vars(DsAck(d))

SpecFair == Init /\ [][NextFair]_vars /\ Fairness

(***************************************************************************)
(* The read loop of the ETDServerWrapper, piece by piece                   *)
(***************************************************************************)
\* bufSz of ETDServerWrapper::handle, in pieces
WrBufSz == 5

\* the most writes of the client on one connection
MaxStream == 5

\* what the client writes at once: a command without its end, or one
\* character that ends a line
FrameWrites ==
    { Command([NoParams EXCEPT !.op = "rm", !.uuid = Remote]),
      Command([NoParams EXCEPT !.op = "rfw", !.path = "/c", !.mode = "New"]),
      <<CR>>, <<NL>> }

\* memmove(&buffer[0], &buffer[endpos], curPos - endpos); curPos -= endpos
Compact(buf, endpos) == SubSeq(buf, endpos + 1, Len(buf))

\* the client writes x on the control connection
ClientWrite(x) ==
    /\ ~ctl.closed
    /\ ctl.sent < MaxStream
    /\ ctl' = [ctl EXCEPT !.up = @ \o x, !.all = @ \o x, !.sent = @ + 1]
    /\ UNCHANGED <<transfers, fdOpen, stateLock, xferLock, pc, arg, ret, proxy, dc>>

\* one turn of while( !terminated && curPos<bufSz ): the read returns n bytes
\* behind the ones in the buffer, getReplies takes the lines, the for loop
\* gets them one after the other; the bytes behind endpos are not looked at
\* by the for loop, so the memmove that follows it is taken with the read
WrRead(n) ==
    /\ ~ctl.closed
    /\ pc[Remote] = "idle"
    /\ ctl.cmd = <<>>
    /\ Len(ctl.wbuf) < WrBufSz
    /\ n \in 1 .. Min(Len(ctl.up), WrBufSz - Len(ctl.wbuf))
    /\ LET buf == ctl.wbuf \o SubSeq(ctl.up, 1, n)
           r   == getReplies(buf)
       IN  ctl' = [ctl EXCEPT
                     !.up    = SubSeq(ctl.up, n + 1, Len(ctl.up)),
                     !.wbuf  = Compact(buf, r.endpos),
                     !.got   = @ \o r.lines,
                     !.cmd   = IF r.lines = <<>> THEN <<>> ELSE Head(r.lines),
                     !.lines = IF r.lines = <<>> THEN <<>> ELSE Tail(r.lines)]
    /\ UNCHANGED <<transfers, fdOpen, stateLock, xferLock, pc, arg, ret, proxy, dc>>

NextFraming ==
    \/ \E x \in FrameWrites : ClientWrite(x)
    \/ \E n \in 1 .. WrBufSz : WrRead(n)
    \/ WrWriteFile
    \/ WrRemoveUUID
    \/ WrReply
    \/ RfwOpen(Remote)
    \/ RmTry(Remote)
    \/ RmErase(Remote)

SpecFraming == Init /\ [][NextFraming]_vars

\* every thread of the daemon at work on two files, the rounds of the lock
\* loops taken one statement at a time
NextLocks ==
    \/ \E s \in Services : RequestFileWrite(s, "/c", "New")
    \/ \E s \in Services : RfwOpen(s)
    \/ \E s \in Services : RequestFileRead(s, "/a/b", 0)
    \/ \E s \in Services : RfrOpen(s)
    \/ \E s \in Services : RemoveUUID(s, s)
    \/ \E s \in Services, as \in OneAddr : SendFile(s, s, 1, as)
    \/ \E s \in Services, as \in OneAddr : GetFile(s, s, 1, as)
    \/ \E d \in DataThreads, u \in UUIDs, push \in BOOLEAN : DsHeader(d, u, push, 1)
    \/ \E p \in Procs : LkLock(p)
    \/ \E p \in Procs : LkTry(p)
    \/ \E p \in Procs : LkUnlock(p)
    \/ \E s \in Services : RmErase(s)
    \/ \E s \in Services : SfConnect(s)
    \/ \E s \in Services : SfCopy(s)
    \/ \E s \in Services : SfAck(s)
    \/ \E s \in Services : GfConnect(s)
    \/ \E s \in Services : GfCopy(s)
    \/ \E s \in Services : GfAck(s)
    \/ \E d \in DataThreads : DsCopy(d)
    \/ \E d \in DataThreads : DsAck(d)
    \/ \E p \in Procs : Return(p)

SpecLocks == Init /\ [][NextLocks]_vars

\* a Service that opens a file for writing, and a client of the data server
\* that writes a header of its own making and then payload as it likes
NextHeader ==
    \/ \E s \in Services : RequestFileWrite(s, "/c", "New")
    \/ \E s \in Services : RfwOpen(s)
    \/ \E h \in RawHeaders : DcPeerRaw(h)
    \/ DcPeerByte
    \/ DcPeerClose
    \/ \E d \in DataThreads : DcRead(d)
    \/ \E d \in DataThreads : DsTry(d)
    \/ \E d \in DataThreads : DcPull(d)
    \/ \E d \in DataThreads : DcDsAck(d)
    \/ \E d \in DataThreads : DcEnd(d)
    \/ \E s \in Services : Return(s)

SpecHeader == Init /\ [][NextHeader]_vars

\* the ETDProxy of a client that calls listPath and dataChannelAddr, on a
\* connection to a peer that answers with reply lines of its choice
NextList ==
    \/ \E c \in ListCalls : PxCall(c)
    \/ PxRead
    \/ PxReturn
    \/ \E l \in EntryLines : PeerLine(l)
    \/ PeerClose

SpecList == Init /\ [][NextList]_vars

\* the Services open files, remove their records and are destroyed while
\* the data server serves requests on the records
NextDtor ==
    \/ \E s \in Services : RequestFileWrite(s, "/c", "New")
    \/ \E s \in Services : RfwOpen(s)
    \/ \E s \in Services : RequestFileRead(s, "/a/b", 0)
    \/ \E s \in Services : RfrOpen(s)
    \/ \E s \in Services : RemoveUUID(s, s)
    \/ \E s \in Services : Destroy(s)
    \/ \E s \in Services : RmTry(s)
    \/ \E s \in Services : RmErase(s)
    \/ \E s \in Services : Gone(s)
    \/ \E d \in DataThreads, u \in UUIDs, push \in BOOLEAN, n \in 0 .. MaxTodo :
           DsHeader(d, u, push, n)
    \/ \E d \in DataThreads : DsTry(d)
    \/ \E d \in DataThreads : DsCopy(d)
    \/ \E d \in DataThreads : DsAck(d)
    \/ \E p \in Procs : arg[p].op # "dtor" /\ Return(p)

\* scheduled fairly, as in SpecFair; the destructor returns once removeUUID
\* has
SpecDtor ==
    Init /\ [][NextDtor]_vars /\ Fairness /\ \A s \in Services : WF_vars(Gone(s))

(***************************************************************************)
(* Properties of the registry                                              *)
(***************************************************************************)
\* thread s takes the step of op that starts at "idle": lock, checks
Calls(s, op) == pc[s] = "idle" /\ arg'[s].op = op

\* the UUIDs whose record has this normalized path
HasPath(nPath) == {u \in UUIDs : transfers[u] # NoRec /\ transfers[u].path = nPath}

\* C1: two distinct records have the same normalized path only if both are
\* in Read mode
C1_SharedPathOnlyRead ==
    \A u, v \in UUIDs :
        (u # v /\ Found(u) /\ Found(v) /\ transfers[u].path = transfers[v].path)
            => (transfers[u].openMode = "Read" /\ transfers[v].openMode = "Read")

\* two readers of one path are in the map
C1_Witness ==
    \E u, v \in UUIDs :
        /\ u # v /\ Found(u) /\ Found(v)
        /\ transfers[u].path = transfers[v].path
        /\ transfers[u].openMode = "Read"

\* C2: every record in the map has an open fd; a record enters the map
\* only in the step that opened its file, an fd is closed only by
\* removeUUID holding both locks, and its record leaves the map in that step
C2_RecordFdOpen ==
    /\ [](\A u \in UUIDs : Found(u) => fdOpen[u])
    /\ [][\A u \in UUIDs :
            /\ (~Found(u) /\ Found(u)')
                  => (pc[u] \in {"rfw_open", "rfr_open"} /\ ~fdOpen[u] /\ fdOpen'[u])
            /\ (fdOpen[u] /\ ~fdOpen'[u])
                  => (pc[u] = "rm_both" /\ Found(u) /\ ~Found(u)')
            /\ (Found(u) /\ ~Found(u)') => ~fdOpen'[u]]_vars

\* removeUUID has returned true while another record stays in the map
C2_Witness ==
    \E s, u \in UUIDs :
        /\ pc[s] = "done" /\ arg[s].op = "rm" /\ ret[s] = "true"
        /\ ~Found(s) /\ ~fdOpen[s]
        /\ Found(u) /\ fdOpen[u]

\* C3: of two requestFileWrite calls for one normalized path that has no
\* record, one passes the checks and, its file opened, inserts the record;
\* the other cannot pass them before the first is done, finds the path and
\* fails with the path-in-use error, inserting nothing: never do both succeed
C3_WriteCheckInsertAtomic ==
    /\ [](\A s, t \in Services :
            (s # t /\ pc[s] = "done" /\ pc[t] = "done"
                   /\ arg[s].op = "rfw" /\ arg[t].op = "rfw"
                   /\ arg[s].path = arg[t].path)
               => ~(ret[s] = "ok" /\ ret[t] = "ok"))
    /\ [](\A s, t \in Services :
            (s # t /\ pc[s] = "rfw_open")
               => /\ pc[t] \notin {"rfw_open", "rfr_open"}
                  /\ ~(Found(t) /\ transfers[t].path = arg[s].path))
    /\ [][\A t \in Services :
            /\ (Calls(t, "rfw") /\ ret'[t] = "ErrPathInUse")
                  => (HasPath(arg'[t].path) # {} /\ transfers' = transfers)
            /\ (Calls(t, "rfw") /\ HasPath(arg'[t].path) = {} /\ ~Found(t))
                  => (pc'[t] = "rfw_open" \/ ret'[t] = "ErrMode")
            /\ (pc[t] = "rfw_open" /\ pc'[t] # "rfw_open")
                  => \/ ret'[t] = "ErrOpen" /\ transfers' = transfers
                     \/ ret'[t] = "ok" /\ Found(t)'
                          /\ transfers'[t].path = arg[t].path]_vars

\* both calls are over: one inserted the record, the other was refused
C3_Witness ==
    \E s, t \in Services :
        /\ s # t /\ pc[s] = "done" /\ pc[t] = "done"
        /\ arg[s].op = "rfw" /\ arg[t].op = "rfw" /\ arg[s].path = arg[t].path
        /\ ret[s] = "ok" /\ ret[t] = "ErrPathInUse"
        /\ Found(s) /\ ~Found(t)

\* C4: a requestFileRead or requestFileWrite by a Service whose UUID keys a
\* record fails (already busy) and leaves the registry unchanged; the record
\* under a UUID changes only by being inserted or erased
C4_BusyRefused ==
    [][\A s \in Services :
         /\ ((Calls(s, "rfw") \/ Calls(s, "rfr")) /\ Found(s))
               => (pc'[s] = "done" /\ ret'[s] = "ErrBusy"
                     /\ transfers' = transfers /\ fdOpen' = fdOpen)
         /\ (Found(s) /\ Found(s)') => transfers'[s] = transfers[s]]_vars

\* a busy Service was refused
C4_Witness ==
    \E s \in Services :
        /\ pc[s] = "done" /\ ret[s] = "ErrBusy" /\ arg[s].op = "rfw"
        /\ Found(s) /\ transfers[s].openMode = "Read"

\* C5: requestFileWrite fails and inserts nothing whenever a record for the
\* normalized path exists, whatever its mode; the error is the path conflict
\* unless the caller is busy or the mode is not a write mode, which are
\* checked first
C5_WritePathConflict ==
    [][\A s \in Services :
         (Calls(s, "rfw") /\ HasPath(arg'[s].path) # {})
            => /\ pc'[s] = "done"
               /\ transfers' = transfers /\ fdOpen' = fdOpen
               /\ ret'[s] \in {"ErrBusy", "ErrMode", "ErrPathInUse"}
               /\ ret'[s] = "ErrBusy" => Found(s)
               /\ ret'[s] = "ErrMode" => arg'[s].mode \notin allowedModes]_vars

\* a write was refused for a path that has readers only
C5_Witness ==
    \E s \in Services :
        /\ pc[s] = "done" /\ arg[s].op = "rfw" /\ ret[s] = "ErrPathInUse"
        /\ HasPath(arg[s].path) # {}
        /\ \A u \in HasPath(arg[s].path) : transfers[u].openMode = "Read"

\* records of other Services for this path
Others(s, nPath) == HasPath(nPath) \ {s}

\* C6: requestFileRead by a Service without a record passes the path check
\* when every record for the path is in Read mode, and once its file is
\* open the new record is in the map next to all earlier ones; it fails
\* with the path-in-use error, inserting nothing, when a record for the
\* path is in a write mode
C6_MultiReader ==
    [][\A s \in Services :
         /\ (Calls(s, "rfr") /\ ~Found(s))
               => IF \A u \in Others(s, arg'[s].path) : transfers[u].openMode = "Read"
                  THEN pc'[s] = "rfr_open" /\ transfers' = transfers
                  ELSE pc'[s] = "done" /\ ret'[s] = "ErrPathInUse"
                         /\ transfers' = transfers /\ fdOpen' = fdOpen
         /\ (pc[s] = "rfr_open" /\ ret'[s] = "ok")
               => /\ transfers'[s] = [path |-> arg[s].path, openMode |-> "Read"]
                  /\ \A u \in UUIDs \ {s} : transfers'[u] = transfers[u]
                  /\ \A u \in Others(s, arg[s].path) : transfers'[u].openMode = "Read"]_vars

\* a second reader of a path has been admitted
C6_Witness ==
    \E s \in Services :
        /\ pc[s] = "done" /\ arg[s].op = "rfr" /\ ret[s] = "ok"
        /\ Found(s) /\ Others(s, transfers[s].path) # {}

\* C7: removeUUID with the Service's own UUID returns false and changes
\* nothing if there is no record under it; else it closes the record's fd,
\* erases that entry alone and returns true
C7_RemoveOwn ==
    [][\A s \in Services :
         /\ (pc[s] = "rm_lock" /\ ~Found(s) /\ pc'[s] # "rm_lock")
               => (pc'[s] = "done" /\ ret'[s] = "false"
                     /\ transfers' = transfers /\ fdOpen' = fdOpen)
         /\ (pc[s] = "rm_lock" /\ Found(s)) => pc'[s] \in {"rm_lock", "rm_both"}
         /\ (pc[s] = "rm_both" /\ pc'[s] # "rm_both")
               => /\ pc'[s] = "done" /\ ret'[s] = "true"
                  /\ fdOpen[s] /\ ~fdOpen'[s] /\ Found(s) /\ ~Found(s)'
                  /\ \A u \in UUIDs \ {s} :
                        transfers'[u] = transfers[u] /\ fdOpen'[u] = fdOpen[u]]_vars

\* one removeUUID has removed a record and returned true, another found
\* no record and returned false
C7_Witness ==
    \E s, t \in Services :
        /\ pc[s] = "done" /\ arg[s].op = "rm" /\ ret[s] = "true"
        /\ pc[t] = "done" /\ arg[t].op = "rm" /\ ret[t] = "false"

\* C8: removeUUID(u) on a Service whose UUID is not u fails and neither
\* removes nor closes any record
C8_RemoveForeign ==
    [][\A s \in Services :
         /\ (Calls(s, "rm") /\ arg'[s].uuid # s)
               => (pc'[s] = "done" /\ ret'[s] = "ErrUuid"
                     /\ transfers' = transfers /\ fdOpen' = fdOpen)
         /\ pc'[s] \in {"rm_lock", "rm_both"} => arg'[s].uuid = s]_vars

\* the call was refused and both records, the caller's and the one named,
\* are in the map
C8_Witness ==
    \E s \in Services :
        /\ pc[s] = "done" /\ arg[s].op = "rm" /\ ret[s] = "ErrUuid"
        /\ arg[s].uuid # s /\ Found(arg[s].uuid) /\ fdOpen[arg[s].uuid]
        /\ Found(s) /\ fdOpen[s]

(***************************************************************************)
(* Properties of the locking protocol                                      *)
(***************************************************************************)
\* thread p is in the copy part of a transfer on record u
InTransfer(p, u) ==
    \/ p \in DataThreads /\ pc[p] \in {"ds_copy", "ds_ack"} /\ arg[p].uuid = u
    \/ p = u /\ pc[p] \in {"sf_conn", "sf_copy", "sf_ack",
                            "gf_conn", "gf_copy", "gf_ack"}

\* C9: while a transfer holds the lock of a record, a removeUUID for that
\* record stays in its retry loop: it does not close the fd, does not erase
\* the entry and does not return
C9_RemoveWaitsForTransfer ==
    /\ [](\A u \in UUIDs, p \in Procs :
            InTransfer(p, u)
               => (xferLock[u] = p /\ Found(u) /\ fdOpen[u] /\ pc[u] # "rm_both"))
    /\ [][\A s \in Services :
            (pc[s] = "rm_lock" /\ \E p \in Procs \ {s} : InTransfer(p, s))
               => (pc'[s] = "rm_lock" /\ transfers'[s] = transfers[s]
                     /\ fdOpen'[s] = fdOpen[s])]_vars

\* removeUUID is under way while a data connection copies on the record
C9_Witness ==
    \E s \in Services, d \in DataThreads :
        pc[s] = "rm_lock" /\ InTransfer(d, s) /\ arg[d].todo > 0

\* a step of p that takes no lock
FreeStep(p) ==
    \/ p \in Services /\ (RfwOpen(p) \/ RfrOpen(p) \/ RmErase(p))
    \/ p \in Services /\ (SfConnect(p) \/ SfCopy(p) \/ SfAck(p))
    \/ p \in Services /\ (GfConnect(p) \/ GfCopy(p) \/ GfAck(p))
    \/ p \in DataThreads /\ (DsCopy(p) \/ DsAck(p))

\* a step of p that starts by locking stateLock
LockStep(p) ==
    \/ p \in Services /\ (RmTry(p) \/ SfTry(p) \/ GfTry(p))
    \/ p \in DataThreads /\ DsTry(p)

\* C10: no thread waits for a lock whose holder cannot go on: every thread
\* inside an operation can take a step, or waits for stateLock while the
\* holder of stateLock can take a step without any lock; and a thread that
\* holds a lock never waits for one
C10_DeadlockFree ==
    \A p \in Procs :
        /\ pc[p] \notin {"idle", "done"}
              => \/ ENABLED (FreeStep(p) \/ LockStep(p))
                 \/ /\ stateLock \notin {None, p}
                    /\ ENABLED FreeStep(stateLock)
        /\ (stateLock = p \/ \E u \in UUIDs : xferLock[u] = p)
              => ENABLED FreeStep(p)

\* removeUUID has backed off from a record locked by a data connection and
\* waits for stateLock, which another Service holds
C10_Witness ==
    \E s \in Services, d \in DataThreads :
        /\ pc[s] = "rm_lock" /\ xferLock[s] = d
        /\ stateLock \in Services \ {s}

(***************************************************************************)
(* Properties of the transfers                                             *)
(***************************************************************************)
\* thread p is at a point where its next step is I/O: a file is opened,
\* sought or closed, or a data connection is connected, read or written
AtIO(p) ==
    pc[p] \in {"rfw_open", "rfr_open", "rm_both",
               "sf_conn", "sf_copy", "sf_ack",
               "gf_conn", "gf_copy", "gf_ack",
               "ds_copy", "ds_ack"}

\* C11: no thread holds stateLock while it performs I/O
C11_NoIoUnderStateLock ==
    \A p \in Procs : AtIO(p) => stateLock # p

\* C12: a sendFile that returns true has written the header, then exactly
\* the n bytes asked for, then has read exactly one acknowledgement byte,
\* whatever n >= 0 is and whatever the peer does
C12_SendFileExactBytes ==
    \A s \in Services :
        /\ (pc[s] = "sf_copy" /\ arg[s].moved > 0) => arg[s].hdr = 1
        /\ pc[s] = "sf_ack" => (arg[s].hdr = 1 /\ arg[s].moved = arg[s].n)
        /\ (pc[s] = "done" /\ arg[s].op = "sf" /\ ret[s] = "true")
              => (arg[s].hdr = 1 /\ arg[s].moved = arg[s].n /\ arg[s].ack = 1)

\* C13: sendFile fails, and opens no data connection, unless srcUUID is
\* the Service's own UUID and a Read-mode record is in the map under it,
\* for every nBytes
C13_SendFileNeedsReadRecord ==
    /\ [](\A s \in Services :
            (arg[s].op = "sf" /\ (ret[s] = "true" \/ arg[s].conn # None
                                    \/ arg[s].hdr = 1))
               => (Found(s) /\ transfers[s].openMode = "Read"))
    /\ [][\A s \in Services :
            (Calls(s, "sf") /\ arg'[s].uuid # s)
               => (pc'[s] = "done" /\ ret'[s] = "ErrUuid")]_vars

\* the record under u is in a mode whose file may be written / read
Writable(u) == transfers[u] # NoRec /\ transfers[u].openMode \in {"New", "OverWrite", "Resume"}

Readable(u) == transfers[u] # NoRec /\ transfers[u].openMode = "Read"

\* the record and direction of the request that data thread d serves
Served(d) == IF arg[d].push THEN Readable(arg[d].uuid) ELSE Writable(arg[d].uuid)

\* C14: payload is written to a record's file only if its mode is New,
\* OverWrite or Resume, and read from it for sending only if its mode is
\* Read: getFile and the data server's pull, finding the record in another
\* mode, fail before the header or any payload moves, and so does the data
\* server's push unless the mode is Read
C14_PayloadNeedsMode ==
    /\ [](\A s \in Services :
            /\ pc[s] \in {"gf_conn", "gf_copy", "gf_ack"} => Writable(s)
            /\ pc[s] \in {"sf_conn", "sf_copy", "sf_ack"} => Readable(s))
    /\ [](\A d \in DataThreads : pc[d] \in {"ds_copy", "ds_ack"} => Served(d))
    /\ [][/\ \A s \in Services :
               /\ (arg[s].op = "gf" /\ arg'[s].moved > arg[s].moved) => Writable(s)
               /\ (arg[s].op = "sf" /\ arg'[s].moved > arg[s].moved) => Readable(s)
               /\ (pc[s] = "gf_lock" /\ pc'[s] # "gf_lock" /\ Found(s) /\ ~Writable(s))
                     => (pc'[s] = "done" /\ ret'[s] = "ErrNotWrite"
                           /\ arg'[s].hdr = 0 /\ arg'[s].moved = 0)
          /\ \A d \in DataThreads :
               /\ (pc[d] = "ds_copy" /\ arg'[d].todo < arg[d].todo) => Served(d)
               /\ (pc[d] = "ds_lock" /\ pc'[d] # "ds_lock"
                                     /\ Found(arg[d].uuid) /\ ~Served(d))
                     => (pc'[d] = "done" /\ ret'[d] = "ErrModeMismatch")]_vars

\* getFile was refused on a SkipExisting record and a data request for the
\* mode of its record, while another getFile has written payload to its file
C14_Witness ==
    \E s, t \in Services, d \in DataThreads :
        /\ pc[s] = "done" /\ arg[s].op = "gf" /\ ret[s] = "ErrNotWrite"
        /\ Found(s) /\ transfers[s].openMode = "SkipExisting"
        /\ pc[t] = "gf_copy" /\ arg[t].moved > 0 /\ Writable(t)
        /\ pc[d] = "done" /\ ret[d] = "ErrModeMismatch"

\* C15: the connect step of sendFile and getFile tries the addresses in
\* list order: the addresses that did not connect are a prefix of the list,
\* the connection is to the address right after them and no later address
\* is tried; if none connects the call fails with the diagnostics of every
\* address, in list order, and neither header nor payload has been written
C15_AddrsInOrder ==
    [][\A s \in Services :
         (pc[s] \in {"sf_conn", "gf_conn"} /\ pc'[s] # pc[s])
            => LET as == arg[s].addrs
                   k  == Len(arg'[s].tried)
               IN  /\ k <= Len(as)
                   /\ arg'[s].tried = SubSeq(as, 1, k)
                   /\ IF pc'[s] = "done"
                      THEN /\ k = Len(as)
                           /\ ret'[s] = "ErrConnect"
                           /\ arg'[s].conn = None
                           /\ arg'[s].hdr = 0 /\ arg'[s].moved = 0
                      ELSE /\ k < Len(as)
                           /\ arg'[s].conn = as[k + 1]
                           /\ arg'[s].hdr = 1 /\ arg'[s].moved = 0]_vars

\* one call is connected to the last address of its list after every
\* earlier one failed, another has failed on all of them
C15_Witness ==
    \E s, t \in Services :
        /\ pc[s] \in {"sf_copy", "gf_copy"}
        /\ Len(arg[s].tried) = NumAddrs - 1 /\ arg[s].conn # None
        /\ arg[s].conn # arg[s].tried[1]
        /\ pc[t] = "done" /\ ret[t] = "ErrConnect" /\ Len(arg[t].tried) = NumAddrs

\* C16: a sendFile, getFile or data-server request that fails, at whatever
\* point, leaves the map and the fds as they are and the failing thread
\* holds neither stateLock nor any record's lock; no finished operation
\* holds a lock, so a removeUUID of the owner finds the record's lock free
\* once no transfer is under way, and it returns true
C16_FailureKeepsRecord ==
    /\ [](\A p \in Procs :
            pc[p] = "done" => (stateLock # p /\ \A u \in UUIDs : xferLock[u] # p))
    /\ [](\A s \in Services :
            (pc[s] = "rm_lock" /\ Found(s) /\ ~\E p \in Procs : InTransfer(p, s))
               => xferLock[s] = None)
    /\ [][/\ \A p \in Procs :
               (arg'[p].op \in {"sf", "gf", "ds"} /\ pc[p] # "done"
                   /\ pc'[p] = "done" /\ ret'[p] # "true")
                  => /\ transfers' = transfers /\ fdOpen' = fdOpen
                     /\ stateLock' # p
                     /\ \A u \in UUIDs : xferLock'[u] # p
          /\ \A s \in Services :
               (pc[s] \in {"rm_lock", "rm_both"} /\ Found(s) /\ pc'[s] = "done")
                  => (ret'[s] = "true" /\ ~Found(s)')]_vars

\* a getFile has failed in the middle of the copy and a data request has
\* failed; the record is in the map, its fd open and its lock free
C16_Witness ==
    \E s \in Services, d \in DataThreads :
        /\ pc[s] = "done" /\ arg[s].op = "gf" /\ ret[s] = "ErrIO" /\ arg[s].moved > 0
        /\ Found(s) /\ fdOpen[s] /\ xferLock[s] = None /\ stateLock = None
        /\ pc[d] = "done" /\ ret[d] \in {"ErrIO", "ErrShortRead"}

(***************************************************************************)
(* Properties of the ETDProxy                                              *)
(***************************************************************************)
\* the call has ended with its reply buffer full and no complete reply
\* line in it
FullNoLine ==
    /\ proxy.pc = "done"
    /\ Len(proxy.buf) = PxBufSz
    /\ getReplies(proxy.buf).lines = <<>>

\* C19: a call of any of the six operations of the ETDProxy whose reply
\* buffer has filled up without a complete reply line fails with a protocol
\* error; it returns no success value
C19_FullBufferFails == FullNoLine => proxy.res = "ErrProtocol"

\* the call has ended behind its terminating reply line and bytes that were
\* received are left unparsed in the buffer
Residue == proxy.pc = "done" /\ proxy.finished /\ proxy.buf # <<>>

\* C20: a call of any operation of the ETDProxy that has bytes left
\* unparsed in its buffer behind the terminating reply line fails; it does
\* not return as if the reply had ended there
C20_ResidueFails == Residue => proxy.res \notin {"ok", "true"}

\* C17: removeUUID of the ETDProxy ends as removeUUID of the remote
\* ETDServer ended: it returns false when that call returned false (the
\* Service has no record under its UUID), and true when it returned true,
\* the record then being removed
C17_ProxyRemoveSameResult ==
    (proxy.pc = "done" /\ proxy.op = "rm") =>
        /\ ctl.served.ret = "false" => proxy.res = "false"
        /\ ctl.served.ret = "true" => proxy.res = "true" /\ ~Found(Remote)

\* the client has called requestFileWrite or requestFileRead of its ETDProxy
ProxyOpen == proxy.op \in {"rfw", "rfr"}

\* the step the ETDServerWrapper takes on the command of that call
Dispatch ==
    /\ ProxyOpen
    /\ ctl.cmd # <<>>
    /\ pc[Remote] = "idle"
    /\ pc'[Remote] # "idle" \/ ctl' # ctl

\* the step a direct call with the client's arguments takes
DirectCall ==
    IF proxy.op = "rfw" THEN RequestFileWrite(Remote, proxy.path, proxy.mode)
    ELSE RequestFileRead(Remote, proxy.path, proxy.have)

\* a step of the remote requestFileWrite or requestFileRead other than its
\* successful return
FailingStep ==
    /\ pc[Remote] # pc'[Remote]
    /\ arg'[Remote].op \in {"rfw", "rfr"}
    /\ ~(pc'[Remote] = "done" /\ ret'[Remote] = "ok")

\* C18: requestFileWrite and requestFileRead through the ETDProxy start at
\* the remote ETDServer the operation that a direct call with the same
\* arguments starts; when it returns, the ETDProxy returns the same UUID
\* and count; when it fails, the ETDProxy fails with the message of that
\* failure, and the failing operation leaves the registry as it was
C18_ProxyOpenSameAsDirect ==
    /\ [][Dispatch => DirectCall]_vars
    /\ []((proxy.pc = "done" /\ ProxyOpen /\ ctl.served.ret = "ok") =>
              /\ proxy.res = "ok"
              /\ proxy.curUUID = <<FmtInt(Remote)>>
              /\ proxy.cnt = ctl.served.cnt)
    /\ []((proxy.pc = "done" /\ ProxyOpen /\ ctl.served.ret \notin {"ok", "none"}) =>
              /\ proxy.res = "ErrRemote"
              /\ proxy.info = <<ctl.served.ret>>)
    /\ [][FailingStep => transfers' = transfers]_vars

\* AlreadyHave:<n>, UUID:<uuid> and OK in each of their six orders: the call
\* that was answered with them returns (uuid, n)
C21_AnyReplyOrder ==
    (proxy.pc = "done" /\ proxy.op = "rfw" /\ ctl.served.ret = "ok") =>
        /\ proxy.res = "ok"
        /\ proxy.curUUID = <<FmtInt(Remote)>>
        /\ proxy.cnt = ctl.served.cnt

(***************************************************************************)
(* Properties of the ETDServerWrapper                                      *)
(***************************************************************************)
\* the replies in the bytes written to the connection: the lines up to and
\* with each line that starts with OK or ERR
RECURSIVE SplitReplies(_, _, _)
SplitReplies(ls, cur, acc) ==
    IF ls = <<>> THEN acc
    ELSE IF Head(ls)[1] \in {"OK", "ERR"}
    THEN SplitReplies(Tail(ls), <<>>, Append(acc, Append(cur, Head(ls))))
    ELSE SplitReplies(Tail(ls), Append(cur, Head(ls)), acc)

OnWire == SplitReplies(getReplies(ctl.down).lines, <<>>, <<>>)

\* the command lines of the client that are handled: all but the line the
\* ETDServerWrapper is at and those that wait behind it
Handled ==
    Len(Flat(ctl.log)) - ((IF ctl.cmd = <<>> THEN 0 ELSE 1) + Len(ctl.lines))

\* the head of the first line of a reply to the command line
Answers(line, reply) ==
    \/ reply[1][1] = "ERR" /\ Len(reply) = 1
    \/ /\ line[1] = "write-file-"
       /\ Len(reply) = 3 /\ reply[1][1] = "AlreadyHave:" /\ reply[2][1] = "UUID:"
    \/ /\ line[1] = "read-file"
       /\ Len(reply) = 3 /\ reply[1][1] = "Remain:" /\ reply[2][1] = "UUID:"
    \/ line[1] = "remove-uuid" /\ reply = <<<<"OK">>>>

\* C22: on a connection that is open, the bytes written hold one complete
\* reply for each command line that was handled, in the order of the
\* command lines, and no byte of a reply to the line that is being handled
\* or to a line behind it: the reply to a command is complete before the
\* next command is dispatched, also for lines that came in one read
C22_RepliesInCommandOrder ==
    ~ctl.closed =>
        /\ Len(OnWire) = Handled
        /\ \A k \in 1 .. Len(OnWire) : Answers(Flat(ctl.log)[k], OnWire[k])

\* two different commands came in one read, both are handled and both
\* replies are written
C22_Witness ==
    /\ ~ctl.closed
    /\ Len(ctl.log) = 1 /\ Len(ctl.log[1]) = 2
    /\ ctl.log[1][1][1] = "write-file-" /\ ctl.log[1][2][1] = "remove-uuid"
    /\ Handled = 2
    /\ Len(OnWire) = 2 /\ Len(OnWire[1]) = 3 /\ OnWire[2] = <<<<"OK">>>>

\* the call of the ETDServer that a command started has thrown
Raised == pc[Remote] = "done" /\ ret[Remote] \notin {"ok", "true", "false"}

\* the step of the ETDServerWrapper behind a call that has thrown, on a
\* connection that is open
ErrReplyStep == Raised /\ ~ctl.closed /\ pc'[Remote] = "idle"

\* some branch of the ETDServerWrapper takes the line it is at
CanDispatch == ENABLED (WrWriteFile \/ WrReadFile \/ WrRemoveUUID \/ WrUnknown)

\* C23: when the operation that a command started raises an error, the
\* ETDServerWrapper writes for it the one line ERR <message> and nothing
\* else, the connection stays open, and the loop goes on: the next line is
\* the one it is at, and a line it is at is dispatched
C23_ErrorIsOneErrLine ==
    /\ [][ErrReplyStep =>
            /\ ctl'.down = ctl.down \o <<"ERR", Blank, ret[Remote], NL>>
            /\ ~ctl'.closed
            /\ ctl'.cmd = (IF ctl.lines = <<>> THEN <<>> ELSE Head(ctl.lines))]_vars
    /\ []((~ctl.closed /\ pc[Remote] = "idle" /\ ctl.cmd # <<>>) => CanDispatch)

\* a remove-uuid that named another UUID was answered with an ERR line, and
\* the write-file behind it was served
C23_Witness ==
    /\ ~ctl.closed
    /\ Len(OnWire) = 2
    /\ OnWire[1] = <<<<"ERR", Blank, "ErrUuid">>>>
    /\ OnWire[2][1][1] = "AlreadyHave:"
    /\ pc[Remote] = "idle"

\* the ETDServerWrapper is at a line that matches no command
AtUnknown == pc[Remote] = "idle" /\ ctl.cmd # <<>> /\ ParseCmd(ctl.cmd).op = "unknown"

\* C28: a line that matches no command ends the loop of the
\* ETDServerWrapper without a reply: the step on it writes nothing and
\* closes the connection, and from then on nothing is written and no
\* operation of the Service is started, whether the lines behind it came
\* in the same read or not
C28_UnknownEndsLoop ==
    /\ [][(AtUnknown /\ ctl' # ctl) => (ctl'.down = ctl.down /\ ctl'.closed)]_vars
    /\ [][ctl.closed => /\ ctl'.down = ctl.down
                        /\ pc[Remote] = "idle" => pc'[Remote] = "idle"]_vars


(***************************************************************************)
(* Properties of the life of a record                                      *)
(***************************************************************************)
\* the step takes the record under u out of the map or closes its fd
Removes(u) ==
    \/ transfers[u] # NoRec /\ transfers'[u] = NoRec
    \/ fdOpen[u] /\ ~fdOpen'[u]

\* the step of thread p reads or writes the file of a record
FileIO(p) ==
    \/ arg[p].op \in {"sf", "gf"} /\ arg'[p].op = arg[p].op
                                  /\ arg'[p].moved > arg[p].moved
    \/ pc[p] = "ds_copy" /\ pc'[p] = "ds_copy" /\ arg'[p].todo < arg[p].todo

\* the record whose file thread p copies from or to
FileOf(p) == IF p \in DataThreads THEN arg[p].uuid ELSE p

\* C30: a record is erased and its fd closed only in a step of a thread that
\* holds both stateLock and the record's lock; while a transfer holds the
\* record's lock with stateLock released the record is in the map and its
\* fd open; and every read or write of a file is on a record that is in the
\* map with its fd open, never on one removeUUID has closed
C30_EraseUnderBothLocks ==
    /\ [][\A u \in UUIDs :
            Removes(u) => /\ stateLock # None
                          /\ stateLock = xferLock[u]
                          /\ pc[stateLock] = "rm_both"
                          /\ transfers'[u] = NoRec /\ ~fdOpen'[u]]_vars
    /\ [](\A u \in UUIDs, p \in Procs :
            (InTransfer(p, u) /\ stateLock # p)
               => (xferLock[u] = p /\ transfers[u] # NoRec /\ fdOpen[u]))
    /\ [][\A p \in Procs :
            FileIO(p) => /\ transfers[FileOf(p)] # NoRec
                         /\ fdOpen[FileOf(p)] /\ fdOpen'[FileOf(p)]
                         /\ xferLock[FileOf(p)] = p]_vars

\* removeUUID has erased one record and closed its fd, while a data
\* connection that has moved payload holds the lock of another record whose
\* owner waits in removeUUID
C30_Witness ==
    \E s, t \in Services, d \in DataThreads :
        /\ pc[s] = "done" /\ arg[s].op = "rm" /\ ret[s] = "true"
        /\ transfers[s] = NoRec /\ ~fdOpen[s]
        /\ pc[t] = "rm_lock" /\ InTransfer(d, t) /\ xferLock[t] = d
        /\ stateLock = None


\* C27: getFile ends when the peer closes the data connection: the step in
\* which a read returns 0 with bytes still to come ends the call with an
\* error and the record's lock released, and getFile is never in its copy
\* loop on a connection that the peer has closed
C27_GetFileEndsOnClose ==
    /\ [][\A s \in Services :
            (pc[s] = "gf_copy" /\ arg[s].todo > 0 /\ arg'[s].op = "gf"
                /\ ~arg[s].eof /\ arg'[s].eof)
               => (pc'[s] = "done" /\ ret'[s] \notin {"none", "true"}
                     /\ xferLock'[s] = None)]_vars
    /\ [](\A s \in Services : pc[s] = "gf_copy" => ~arg[s].eof)


(***************************************************************************)
(* Properties of the data protocol                                         *)
(***************************************************************************)
\* the step writes payload to the connection, from the side that wrote the
\* header to the data server (up) or from the data server to that side (down):
\* the stream is longer than before, with a payload byte at its end
PayloadUp   == Len(dc'.up) > Len(dc.up) /\ dc'.up[Len(dc'.up)].k = "byte"
PayloadDown == Len(dc'.dn) > Len(dc.dn) /\ dc'.dn[Len(dc'.dn)].k = "byte"

\* C24: on a connection whose header has push:1 the payload goes from the
\* side that wrote the header to the side that read it, and on a connection
\* whose header has no push it goes from the side that read the header to
\* the side that wrote it
C24_HeaderDirection ==
    [][/\ PayloadUp   => dc'.push
       /\ PayloadDown => ~dc'.push]_vars


\* C24, as the code has it: on a connection whose header has push:1 the
\* payload goes from the side that read the header, the data server, to the
\* side that wrote it, and on a connection whose header has no push the side
\* that wrote the header sends the payload
C24_PushAsksTheServer ==
    [][/\ PayloadUp   => ~dc'.push
       /\ PayloadDown => dc'.push]_vars

\* a sendFile has sent its byte and has returned, and on the connection of
\* a getFile a byte that the data server has pushed is on its way
C24_Witness ==
    /\ pc[Reader] = "done" /\ arg[Reader].op = "sf" /\ ret[Reader] = "true"
    /\ arg[Reader].moved > 0 /\ arg[Reader].ack = 1
    /\ dc.cli = Writer /\ dc.push
    /\ Len(dc.dn) > 0 /\ dc.dn[1].k = "byte"


\* the data server has not given up on the connection
Serving == ~dc.srvClosed /\ \A d \in DataThreads : dc.srv = d => pc[d] # "done"

\* the file of the record that the header names holds, behind what it held
\* when the header came in, exactly the n bytes of the source that follow
\* what the sender had read of it when it connected
RoundTrip(u) ==
    /\ Len(dc.wr[u]) = dc.base + dc.n
    /\ SubSeq(dc.wr[u], dc.base + 1, Len(dc.wr[u])) = Bytes(dc.src, dc.n)

Pulled(u) == SubSeq(dc.wr[u], dc.base + 1, Len(dc.wr[u]))

\* C29: a pull of n bytes never writes more than n bytes to the file, its
\* counter of remaining bytes is n less what it has written and so never
\* wraps below zero, and when it is through, it has written exactly the
\* first n bytes that came in behind the header, the buffered ones first,
\* however many bytes the reads for the header took in behind it
C29_PullWritesExactlyN ==
    \A d \in DataThreads :
        (pc[d] \in {"ds_copy", "ds_ack"} /\ ~arg[d].push)
           => LET u == arg[d].uuid
              IN  /\ Len(Pulled(u)) <= dc.n
                  /\ arg[d].todo = dc.n - Len(Pulled(u))
                  /\ Pulled(u) = Bytes(0, Len(Pulled(u)))
                  /\ pc[d] = "ds_ack" => Len(Pulled(u)) = dc.n


(***************************************************************************)
(* Progress of removeUUID                                                  *)
(***************************************************************************)
\* C26: under fair scheduling, if from some time on the transfers on the
\* record of a Service have released its lock and no new one is started, a
\* removeUUID of that Service that waits in its try-lock loop gets both locks
\* and returns true
C26_RemoveEventuallyReturns ==
    \A s \in Services :
        <>[]Quiet(s) => ((pc[s] = "rm_lock" /\ Found(s))
                            ~> (pc[s] = "done" /\ ret[s] = "true"))

\* removeUUID is in its try-lock loop and has backed off, while a data
\* connection that is through with its copy still holds the record's lock
C26_Witness ==
    \E s \in Services, d \in DataThreads :
        /\ pc[s] = "rm_lock" /\ Found(s) /\ stateLock = None
        /\ pc[d] = "ds_ack" /\ arg[d].uuid = s /\ xferLock[s] = d

(***************************************************************************)
(* Properties of the lock rounds                                           *)
(***************************************************************************)
\* thread p has made a step of its own
Stepped(p) == pc'[p] # pc[p] \/ arg'[p] # arg[p] \/ ret'[p] # ret[p]

\* thread p is at the try_lock of a record whose lock another thread holds
TryFails(p) ==
    /\ pc[p] = "lk_find"
    /\ Found(arg[p].uuid)
    /\ xferLock[arg[p].uuid] # None

\* C31: a record's lock is taken only by the try_lock of a thread that holds
\* stateLock at that step, and only when the lock is free; a try_lock that
\* fails does not wait: the thread's next step releases stateLock, takes no
\* lock and puts the thread back at the top of its loop, where it locks
\* stateLock and searches the map again
C31_TryLockUnderStateLock ==
    [][ /\ \A u \in UUIDs :
              (xferLock'[u] # xferLock[u] /\ xferLock'[u] # None)
                  => /\ xferLock[u] = None
                     /\ stateLock = xferLock'[u]
                     /\ pc[xferLock'[u]] = "lk_find"
                     /\ arg[xferLock'[u]].uuid = u
        /\ \A p \in Procs :
              (TryFails(p) /\ Stepped(p))
                  => /\ stateLock = p
                     /\ stateLock' = None
                     /\ xferLock' = xferLock
                     /\ pc'[p] \in LockPcs
                     /\ arg'[p] = arg[p]
        /\ \A p \in Procs : TryFails(p) => ENABLED LkTry(p)
      ]_vars

\* a thread holds stateLock and is about to try the lock of a record that
\* another thread has locked for its transfer
C31_Witness ==
    \E p, q \in Procs :
        /\ p # q
        /\ TryFails(q)
        /\ stateLock = q
        /\ xferLock[arg[q].uuid] = p
        /\ pc[p] \in {"sf_copy", "gf_copy", "ds_copy"}

(***************************************************************************)
(* Properties of the header of a data connection                           *)
(***************************************************************************)
\* buffer[0 .. curPos) holds maxNoCmdSz bytes that start with the opening
\* brace and have no closing brace
NoClose(buf) ==
    /\ Len(buf) = MaxNoCmdSz
    /\ buf[1].k = "{"
    /\ \A j \in 1 .. Len(buf) : buf[j].k # "}"

\* C32: when ETDDataServer::handle has read maxNoCmdSz bytes without a
\* closing brace it ends with a protocol error (an exception, as for every
\* other header it does not accept), holding no lock
C32_LongHeaderIsError ==
    \A d \in DataThreads :
        (pc[d] = "done" /\ dc.srv = d /\ NoClose(dc.buf))
            => /\ ret[d] = "ErrHeader"
               /\ stateLock # d
               /\ \A u \in UUIDs : xferLock[u] # d

\* the keys between the braces of the command in the buffer, in lower case
KeysOf(buf) == [i \in 1 .. CommandEnd(buf) - 2 |-> Lower(buf[i + 1].k)]

\* the bytes read so far cannot be accepted: they do not start with the
\* opening brace, or the command is complete and lacks uuid or sz, has a
\* key twice, or has push with a value that is not 1
BadHeader(buf) ==
    /\ Len(buf) > 0
    /\ \/ buf[1].k # "{"
       \/ /\ CommandEnd(buf) > 0
          /\ LET ks == KeysOf(buf)
             IN  \/ \A i \in 1 .. Len(ks) : ks[i] # "uuid"
                 \/ \A i \in 1 .. Len(ks) : ks[i] # "sz"
                 \/ \E i, j \in 1 .. Len(ks) : i # j /\ ks[i] = ks[j]
                 \/ \E i \in 1 .. Len(ks) : ks[i] = "push" /\ buf[i + 1].v # 1

\* C33: the read of ETDDataServer::handle that shows the header to be one
\* it cannot accept ends the handler with an error in that step: no lock is
\* taken, no byte of a file is read or written, and the registry is as it
\* was
C33_HeaderCheckedFirst ==
    [][ \A d \in DataThreads :
            (pc[d] = "idle" /\ dc.srv = d /\ dc'.buf # dc.buf /\ BadHeader(dc'.buf))
                => /\ pc'[d] = "done"
                   /\ ret'[d] = "ErrHeader"
                   /\ UNCHANGED <<transfers, fdOpen, stateLock, xferLock>>
                   /\ dc'.rd = dc.rd
                   /\ dc'.wr = dc.wr
      ]_vars

\* the handler has failed on a header that has sz twice, once in upper
\* case, while the record that the header names is registered
C33_Witness ==
    \E d \in DataThreads :
        /\ pc[d] = "done"
        /\ ret[d] = "ErrHeader"
        /\ dc.srv = d
        /\ BadHeader(dc.buf)
        /\ \E i \in 1 .. Len(dc.buf) : dc.buf[i].k = "SZ"
        /\ Found(Find(dc.buf, "uuid")[1])

\* C40: ETDDataServer::handle goes on to the lock and to push_n or pull_n
\* only with a sz that is not negative: a header with a negative sz is
\* rejected, so that no size_t byte count is made of it
C40_NegativeSzRejected ==
    \A d \in DataThreads :
        (dc.srv = d /\ pc[d] \in {"ds_lock", "ds_copy", "ds_ack"}) => dc.n >= 0

(***************************************************************************)
(* Properties of pull_n                                                    *)
(***************************************************************************)
\* pull_n of thread d still expects bytes, has nothing in its buffer that
\* is not written yet, and its read returns 0: the connection has no bytes
\* and the far end has closed it
ReadsNothing(d) ==
    /\ pc[d] = "ds_copy"
    /\ dc.srv = d
    /\ ~arg[d].push
    /\ arg[d].todo > 0
    /\ Buffered(dc.buf) = <<>>
    /\ dc.up = <<>>
    /\ dc.cliClosed

\* C35: a round of pull_n that still expects bytes, has no buffered payload
\* and reads 0 bytes fails with the short-read error: no acknowledgement is
\* written, nothing is written to the file and the record's lock is free
\* after the step
C35_ShortReadFails ==
    [][ \A d \in DataThreads :
            (ReadsNothing(d) /\ Stepped(d) /\ ret'[d] # "ErrRead")
                => /\ pc'[d] = "done"
                   /\ ret'[d] = "ErrShortRead"
                   /\ dc'.dn = dc.dn
                   /\ dc'.wr = dc.wr
                   /\ xferLock'[arg[d].uuid] = None
                   /\ stateLock' # d
      ]_vars

\* pull_n has failed with the short-read error behind a part of the bytes:
\* the file has one byte of the two that the header announced, no
\* acknowledgement is on the connection and the record is not locked
C35_Witness ==
    \E d \in DataThreads, u \in UUIDs :
        /\ pc[d] = "done"
        /\ ret[d] = "ErrShortRead"
        /\ dc.srv = d
        /\ dc.n = 2
        /\ Found(u)
        /\ Len(dc.wr[u]) = dc.base + 1
        /\ dc.dn = <<>>
        /\ xferLock[u] = None

(***************************************************************************)
(* Properties of the replies to listPath and dataChannelAddr               *)
(***************************************************************************)
\* the word of a reply line says OK, or ERR
SaysOK(line)  == line[1] \in {"OK", "ok"}
SaysERR(line) == line[1] \in {"ERR", "err"}

\* the lines that the read which the step makes completes in the buffer
LinesRead ==
    LET n == Len(ctl.down) - Len(ctl'.down)
    IN  getReplies(proxy.buf \o SubSeq(ctl.down, 1, n)).lines

\* C34: when listPath or dataChannelAddr has accepted an OK line and then
\* comes upon an ERR line, in the same read or in a later one, the call
\* fails with a protocol error: the entries collected are not returned
C34_OkThenErrFails ==
    [][ LET lines == LinesRead
        IN  ( /\ proxy.pc = "read"
              /\ proxy.op \in {"list", "dca"}
              /\ Len(ctl'.down) < Len(ctl.down)
              /\ \/ SaysOK(<<proxy.state>>)
                 \/ proxy.state = "" /\ lines # <<>> /\ SaysOK(lines[1])
              /\ \E i \in 1 .. Len(lines) :
                    SaysERR(lines[i]) /\ (i > 1 \/ proxy.state # "") )
                => /\ proxy'.pc = "done"
                   /\ proxy'.res = "ErrProtocol"
      ]_vars

\* the peer has answered listPath with an entry and then an error, each
\* taken in by a read of its own: the call has failed with the entry
\* collected
C34_Witness ==
    /\ proxy.pc = "done"
    /\ proxy.op = "list"
    /\ proxy.res = "ErrProtocol"
    /\ proxy.rv = <<(<<"x">>)>>
    /\ ctl.log = <<(<<"OK", Blank, "x">>), (<<"ERR", Blank, "x">>)>>
    /\ ctl.down = <<>>

(***************************************************************************)
(* Properties of the destructor                                            *)
(***************************************************************************)
\* the destructor of Service s is at work
InDtor(s) == arg[s].op = "dtor" /\ pc[s] # "gone"

\* C36: the destructor of a Service takes the record of the Service out of
\* the registry, and only with the record's lock in its own hands, so not
\* while a transfer holds it; its steps leave the records and the fds of
\* the other Services as they are; once the Service is gone the registry
\* has no record under its UUID; and the destructor gets there when the
\* data connections are, from some time on, through with the record
C36_DestroyRemovesOwn ==
    /\ [](\A s \in Services : pc[s] = "gone" => ~Found(s) /\ ~fdOpen[s])
    /\ [][ \A s \in Services :
              (InDtor(s) /\ Stepped(s))
                  => /\ \A u \in UUIDs \ {s} :
                          transfers'[u] = transfers[u] /\ fdOpen'[u] = fdOpen[u]
                     /\ (Found(s) /\ transfers'[s] = NoRec)
                            => (xferLock[s] = s /\ stateLock = s)
         ]_vars
    /\ \A s \in Services :
          <>[]Quiet(s) => ((InDtor(s) /\ pc[s] = "rm_lock") ~> pc[s] = "gone")

\* a Service is gone, and the record of the other Service is registered
\* still with its fd open
C36_Witness ==
    \E s, t \in Services :
        /\ s # t
        /\ pc[s] = "gone"
        /\ Found(t)
        /\ fdOpen[t]

(***************************************************************************)
(* Properties of a request that fails                                      *)
(***************************************************************************)
\* the step ends a requestFileWrite or requestFileRead of Service s with an
\* exception
RequestFails(s) ==
    /\ pc[s] \in {"idle", "rfw_open", "rfr_open"}
    /\ pc'[s] = "done"
    /\ arg'[s].op \in {"rfw", "rfr"}
    /\ ret'[s] # "ok"

C39_RemainNotNegative ==
    \A s \in Services :
        (pc[s] = "done" /\ arg[s].op = "rfr" /\ ret[s] = "ok") => arg[s].cnt >= 0


\* the lines of a stream, the one at its end that nothing has ended yet too
AllLines(stream) == getReplies(stream \o <<NL>>).lines

\* all lines of the stream are shorter than the buffer
ShortLines(stream) == \A i \in 1 .. Len(AllLines(stream)) : Len(AllLines(stream)[i]) < WrBufSz

\* the bytes of the line at the end of a stream that nothing has ended yet
RECURSIVE Trailing(_)
Trailing(stream) ==
    IF stream = <<>> \/ stream[Len(stream)] \in {CR, NL} THEN <<>>
    ELSE Append(Trailing(SubSeq(stream, 1, Len(stream) - 1)), stream[Len(stream)])

\* the ETDServerWrapper has handled every line it was given and will not
\* read again, or has nothing to read
WrAtRest ==
    /\ pc[Remote] = "idle"
    /\ ctl.cmd = <<>>
    /\ (ctl.up = <<>> \/ Len(ctl.wbuf) >= WrBufSz)

\* C38: whatever the reads return of a stream whose lines are shorter than
\* the buffer, the for loop is given the lines of the stream, in their order,
\* each once: the lines it has been given and the lines still in the buffer
\* and on the wire are the lines of the stream, the bytes of a line that has
\* not ended yet are all there, and when the ETDServerWrapper is at rest it
\* has been given every line of the stream
C38_FramingIndependent ==
    ShortLines(ctl.all) =>
        /\ getReplies(ctl.all).lines = ctl.got \o getReplies(ctl.wbuf \o ctl.up).lines
        /\ Trailing(ctl.all) = Trailing(ctl.wbuf \o ctl.up)
        /\ WrAtRest => ctl.got = getReplies(ctl.all).lines


\* a stream of two commands, the first ended by CR and LF
TwoCommands ==
    Command([NoParams EXCEPT !.op = "rm", !.uuid = Remote]) \o <<CR, NL>>
    \o Command([NoParams EXCEPT !.op = "rfw", !.path = "/c", !.mode = "New"]) \o <<NL>>

\* reads that return CR and LF together: both commands are given to the for
\* loop
SplitBehindLF ==
    /\ ctl.all = TwoCommands
    /\ WrAtRest
    /\ ctl.got = getReplies(TwoCommands).lines

\* a read that ends between CR and LF: LF stays in front of the second
\* command, the buffer is full before its end has come in
SplitBehindCR ==
    /\ ctl.all = TwoCommands
    /\ WrAtRest
    /\ Len(ctl.got) = 1
    /\ Len(ctl.wbuf) = WrBufSz

=============================================================================
